---- MODULE Spec2Model ----
(***************************************************************************)
(* Record reconciliation in the NFL schedule scripts.                      *)
(*                                                                         *)
(*   games_fetch_nfl.py       NFLScheduleFetcher: rewrites games.xml from  *)
(*                            the scrape when a change is detected.        *)
(*   games/_02games_nfl.py    NFLScheduleFetcher: merges the scrape into   *)
(*                            games/nflgames.xml (append / overwrite).     *)
(*                                                                         *)
(* Files are modelled by their parsed content: absent, a complete document *)
(* (its game elements in document order), or a truncated document that no  *)
(* XML parser accepts.  Python's None is the value None below; str(None)   *)
(* is the string "None".                                                   *)
(***************************************************************************)
EXTENDS Naturals, Sequences, FiniteSets

VARIABLES
    xml_file,        \* self.xml_file on disk
    backup_file,     \* self.backup_file on disk
    log_file,        \* self.log_file on disk: the entries appended so far
    games,           \* self.games
    pc,              \* position of the current run inside run()/_save_to_xml()
    backup_created,  \* the local of _save_to_xml
    existing_games,  \* the local of _save_to_xml
    merged_games,    \* the local of _save_to_xml (games/_02games_nfl.py)
    branch,          \* which arm of _save_to_xml the run took
    stats,           \* the result of _analyze_change_statistics
    scraped,         \* the rows _extract_games_from_table collected (parsing alone)
    pre_xml,         \* history: xml_file when the run started
    pre_backup,      \* history: backup_file when the run started
    run_start,       \* history: Len(log_file) when the run started
    backup_failed,   \* history: this run's shutil.copy2 / os.remove raised
    outcome,         \* history: how the last run ended
    tree,            \* the ElementTree a teams script holds in memory
    attempt,         \* CFBDApi._get / teams_sec.get: requests issued by the call
    backoff,         \* CFBDApi._get: the local backoff
    last_err,        \* CFBDApi._get: last_err, teams_sec.get: last
    slept,           \* history: the waits of the call, in order
    nfl_teams_file,  \* tools/teams_builder.py: NFL_TEAMS_PATH on disk
    changes          \* tools/teams_builder.py: the local of main

vars == <<xml_file, backup_file, log_file, games, pc, backup_created,
          existing_games, merged_games, branch, stats, scraped, pre_xml,
          pre_backup, run_start, backup_failed, outcome, tree, attempt, backoff,
          last_err, slept, nfl_teams_file, changes>>

\* the locals of a fetch call, which no run of a script's main changes
retry_vars == <<attempt, backoff, last_err, slept>>

\* the source file and the local of tools/teams_builder.py
builder_vars == <<nfl_teams_file, changes>>

-----------------------------------------------------------------------------
(* Bounds *)

\* longest list of rows one scrape yields
MaxGames == 2
\* a run starts only while games_log.txt holds fewer entries than this
MaxLog == 5
\* a run starts only while games/nflgames_log.txt holds fewer entries than this
MaxMergeLog == 6

\* the team-append scripts are not started on a teams.xml whose league holds
\* this many <conferences> elements
MaxContainers == 3

-----------------------------------------------------------------------------
(* Values *)

None == "~None~"

Str(v) == IF v = None THEN "None" ELSE v

Truthy(v) == v # None /\ v # ""

Or(v, d) == IF Truthy(v) THEN v ELSE d

WeekStrings == {"1", "2"}

IsDigit(w) == w \in WeekStrings

Int(w) == CASE w = "1" -> 1 [] w = "2" -> 2

\* w.zfill(2)
Zfill2(w) == CASE w = "1" -> "01" [] w = "2" -> "02"

\* the place of a date / kickoff string in Python's string order
StrRank(s) ==
    CASE s = "" -> 0
      [] s = "1:00 PM" -> 1
      [] s = "Sunday, Sept. 14" -> 2
      [] s = "Sunday, Sept. 7" -> 3

Row(w, d, a, h, l, n) ==
    [week |-> w, date |-> d, away_team |-> a, home_team |-> h,
     location_note |-> l, time_et |-> "1:00 PM", time_local |-> "12:00 PM",
     network |-> n]

\* the rows _extract_single_game can return that the scrapes are drawn from
Rows ==
    { Row("1", "Sunday, Sept. 7", "Cowboys", "Eagles", "", "FOX"),
      Row("1", "Sunday, Sept. 7", "Cowboys", "Eagles", "", "CBS"),
      Row("2", "Sunday, Sept. 14", "Giants", "Eagles", "", ""),
      Row("2", "Sunday, Sept. 14", "Cowboys", "Giants", "London", "FOX"),
      Row(None, None, "Giants", "Cowboys", "", "FOX") }

Scrapes == UNION { [1..n -> Rows] : n \in 0..MaxGames }

-----------------------------------------------------------------------------
(* Sequences *)

RECURSIVE Flatten(_)
Flatten(ss) == IF ss = <<>> THEN <<>> ELSE Head(ss) \o Flatten(Tail(ss))

Range(s) == { s[i] : i \in 1..Len(s) }

\* the distinct values of s in order of first occurrence (dict insertion order)
RECURSIVE Distinct(_)
Distinct(s) ==
    IF s = <<>> THEN <<>>
    ELSE LET r == Distinct(SubSeq(s, 1, Len(s) - 1))
             x == s[Len(s)]
         IN  IF x \in Range(r) THEN r ELSE Append(r, x)

-----------------------------------------------------------------------------
(* Files *)

Absent == [st |-> "absent", total |-> 0, elems |-> <<>>]

\* a document cut short by a failed write: not well-formed XML
Truncated == [st |-> "truncated", total |-> 0, elems |-> <<>>]

Document(n, es) == [st |-> "doc", total |-> n, elems |-> es]

Exists(f) == f.st # "absent"

\* last_err = None: no request of the call has raised
NoError == [attempt |-> 0]

\* the exception the request of this attempt raised
RequestError(n) == [attempt |-> n]

\* self._log(message)
Log(lg, entries) == lg \o entries

-----------------------------------------------------------------------------
(* games_fetch_nfl.py: parsing *)

GameKey(g) == <<Str(g.week), g.away_team, g.home_team, Str(g.date)>>

RECURSIVE RemoveDuplicateGamesFrom(_, _)
RemoveDuplicateGamesFrom(rows, seen) ==
    IF rows = <<>> THEN <<>>
    ELSE LET game == Head(rows) IN
         IF GameKey(game) \notin seen
         THEN <<game>> \o RemoveDuplicateGamesFrom(Tail(rows), seen \cup {GameKey(game)})
         ELSE RemoveDuplicateGamesFrom(Tail(rows), seen)

\* a variant in which the last of the rows that share a key is the one kept
RECURSIVE RemoveDuplicateGamesKeepLast(_)
RemoveDuplicateGamesKeepLast(rows) ==
    IF rows = <<>> THEN <<>>
    ELSE IF \E j \in 2..Len(rows) : GameKey(rows[j]) = GameKey(Head(rows))
         THEN RemoveDuplicateGamesKeepLast(Tail(rows))
         ELSE <<Head(rows)>> \o RemoveDuplicateGamesKeepLast(Tail(rows))

RemoveDuplicateGames(rows) == RemoveDuplicateGamesFrom(rows, {})

SortKey(g) ==
    <<IF Truthy(g.week) /\ IsDigit(g.week) THEN Int(g.week) ELSE 999,
      StrRank(Or(g.date, "")),
      StrRank(Or(g.time_et, ""))>>

TupleLess(a, b) ==
    \/ a[1] < b[1]
    \/ a[1] = b[1] /\ a[2] < b[2]
    \/ a[1] = b[1] /\ a[2] = b[2] /\ a[3] < b[3]

ChronoLess(g, h) == TupleLess(SortKey(g), SortKey(h))

\* list.sort: stable, ascending by the key
RECURSIVE InsertChrono(_, _)
InsertChrono(s, x) ==
    IF s = <<>> THEN <<x>>
    ELSE IF ChronoLess(x, s[Len(s)])
         THEN Append(InsertChrono(SubSeq(s, 1, Len(s) - 1), x), s[Len(s)])
         ELSE Append(s, x)

RECURSIVE SortChrono(_)
SortChrono(s) ==
    IF s = <<>> THEN <<>>
    ELSE InsertChrono(SortChrono(SubSeq(s, 1, Len(s) - 1)), s[Len(s)])

GetTeamAbbreviation(team) ==
    CASE team = "Cowboys" -> "cowboys"
      [] team = "Eagles" -> "eagles"
      [] team = "Giants" -> "giants"
      [] OTHER -> "unknown-team"

CreateNflStyleKey(week, sequence) ==
    <<"2025", IF IsDigit(week) THEN Zfill2(week) ELSE "00", sequence>>

CreateTeamBasedCode(game, week) ==
    <<"2025W", Or(week, "X"), GetTeamAbbreviation(game.away_team), "@",
      GetTeamAbbreviation(game.home_team)>>

GameId(i) == [prefix |-> "2025-", n |-> i]

GenerateGameIdentifiers(gs) ==
    LET sorted == SortChrono(gs)
        WeekOf(i) == Or(sorted[i].week, "WX")
        Counter(i) == Cardinality({ j \in 1..i : WeekOf(j) = WeekOf(i) })
    IN  [ i \in 1..Len(sorted) |->
            [week |-> sorted[i].week, date |-> sorted[i].date,
             away_team |-> sorted[i].away_team, home_team |-> sorted[i].home_team,
             location_note |-> sorted[i].location_note,
             time_et |-> sorted[i].time_et, time_local |-> sorted[i].time_local,
             network |-> sorted[i].network,
             game_id |-> GameId(i),
             week_game_id |-> <<"2025-W", WeekOf(i), "G", Counter(i)>>,
             game_code |-> CreateTeamBasedCode(sorted[i], WeekOf(i)),
             nfl_game_key |-> CreateNflStyleKey(WeekOf(i), i)] ]

ParseScheduleData(rows) == GenerateGameIdentifiers(RemoveDuplicateGames(rows))

-----------------------------------------------------------------------------
(* dict: the items in insertion order, each value carrying its key *)

Keys(d, k) == { d[i][k] : i \in 1..Len(d) }

Get(d, k, key) == d[CHOOSE i \in 1..Len(d) : d[i][k] = key]

\* d[key] = v
Put(d, k, v) ==
    IF v[k] \in Keys(d, k)
    THEN [ i \in 1..Len(d) |-> IF d[i][k] = v[k] THEN v ELSE d[i] ]
    ELSE Append(d, v)

-----------------------------------------------------------------------------
(* games_fetch_nfl.py: the XML document *)

\* what a parser returns as the text of an element written with this text:
\* ElementTree serialises text '' (and None) as an empty element, whose text
\* parses back as None
ElementText(v) == IF v = "" \/ v = None THEN None ELSE v

NoElement == "~absent~"

GetXmlText(found) == IF found # NoElement THEN ElementText(found) ELSE ""

WeekNum(game) == IF Truthy(game.week) THEN game.week ELSE "Unknown"

DateOf(game) == Or(game.date, "Unknown")

\* key=lambda x: int(x) if x.isdigit() else float('inf')
WeekLess(a, b) == IsDigit(a) /\ (~IsDigit(b) \/ Int(a) < Int(b))

RECURSIVE InsertWeek(_, _)
InsertWeek(s, x) ==
    IF s = <<>> THEN <<x>>
    ELSE IF WeekLess(x, s[Len(s)])
         THEN Append(InsertWeek(SubSeq(s, 1, Len(s) - 1), x), s[Len(s)])
         ELSE Append(s, x)

RECURSIVE SortWeeks(_)
SortWeeks(s) ==
    IF s = <<>> THEN <<>>
    ELSE InsertWeek(SortWeeks(SubSeq(s, 1, Len(s) - 1)), s[Len(s)])

GroupGamesByWeek(gs) == Distinct([ i \in 1..Len(gs) |-> WeekNum(gs[i]) ])

GroupGamesByDate(week_games) ==
    Distinct([ i \in 1..Len(week_games) |-> DateOf(week_games[i]) ])

AddGameToXml(week_num, date_str, game) ==
    [id |-> game.game_id,
     week_game_id |-> game.week_game_id,
     game_code |-> game.game_code,
     nfl_game_key |-> game.nfl_game_key,
     number |-> week_num,
     value |-> date_str,
     away_team |-> game.away_team,
     home_team |-> game.home_team,
     location_note |-> IF Truthy(game.location_note)
                       THEN game.location_note ELSE NoElement,
     local_kickoff |-> game.time_et,
     et_kickoff |-> game.time_local,
     network |-> game.network]

\* the document _write_xml_file builds: week elements in sorted order, date
\* elements in insertion order, the game elements below them
WriteXmlFile(gs) ==
    LET weeks == SortWeeks(GroupGamesByWeek(gs))
        WeekGames(w) == SelectSeq(gs, LAMBDA g : WeekNum(g) = w)
        DateGames(w, d) == SelectSeq(WeekGames(w), LAMBDA g : DateOf(g) = d)
        DateElems(w, d) ==
            [ i \in 1..Len(DateGames(w, d)) |-> AddGameToXml(w, d, DateGames(w, d)[i]) ]
        WeekElems(w) ==
            LET dates == GroupGamesByDate(WeekGames(w))
            IN  Flatten([ j \in 1..Len(dates) |-> DateElems(w, dates[j]) ])
    IN  Document(Len(gs), Flatten([ i \in 1..Len(weeks) |-> WeekElems(weeks[i]) ]))

LoadedGame(game_elem) ==
    [game_id |-> game_elem.id,
     week_game_id |-> game_elem.week_game_id,
     game_code |-> game_elem.game_code,
     nfl_game_key |-> game_elem.nfl_game_key,
     week |-> game_elem.number,
     date |-> game_elem.value,
     away_team |-> GetXmlText(game_elem.away_team),
     home_team |-> GetXmlText(game_elem.home_team),
     location_note |-> GetXmlText(game_elem.location_note),
     time_et |-> GetXmlText(game_elem.local_kickoff),
     time_local |-> GetXmlText(game_elem.et_kickoff),
     network |-> GetXmlText(game_elem.network)]

RECURSIVE LoadElems(_, _)
LoadElems(elems, games_dict) ==
    IF elems = <<>> THEN games_dict
    ELSE LoadElems(Tail(elems), Put(games_dict, "game_id", LoadedGame(Head(elems))))

\* _load_xml_games: {} when the file is absent or does not parse
LoadXmlGames(f) == IF f.st = "doc" THEN LoadElems(f.elems, <<>>) ELSE <<>>

\* the entries _load_xml_games appends to the log
LoadXmlLog(f) ==
    IF f.st = "truncated" THEN << [kind |-> "XML_READ_ERROR"] >> ELSE <<>>

-----------------------------------------------------------------------------
(* games_fetch_nfl.py: change detection and the change report *)

fields_to_compare ==
    <<"week", "date", "away_team", "home_team", "location_note", "time_et",
      "time_local", "network">>

\* any(str(game.get(field, '')) != str(existing.get(field, '')) ...)
IsChanged(game, existing) ==
    \E k \in 1..Len(fields_to_compare) :
        Str(game[fields_to_compare[k]]) # Str(existing[fields_to_compare[k]])

\* _detect_changes without the comparison of the two lengths
DetectChangesSameLength(existing, gs) ==
    \E i \in 1..Len(gs) :
        \/ gs[i].game_id \notin Keys(existing, "game_id")
        \/ IsChanged(gs[i], Get(existing, "game_id", gs[i].game_id))

\* _detect_changes
DetectChanges(existing, gs) ==
    \/ Len(existing) # Len(gs)
    \/ \E i \in 1..Len(gs) :
          \/ gs[i].game_id \notin Keys(existing, "game_id")
          \/ IsChanged(gs[i], Get(existing, "game_id", gs[i].game_id))

NewGames(existing, gs) ==
    { i \in 1..Len(gs) : gs[i].game_id \notin Keys(existing, "game_id") }

EditedGames(existing, gs) ==
    { i \in 1..Len(gs) : /\ gs[i].game_id \in Keys(existing, "game_id")
                         /\ IsChanged(gs[i], Get(existing, "game_id", gs[i].game_id)) }

UnchangedGames(existing, gs) ==
    { i \in 1..Len(gs) : /\ gs[i].game_id \in Keys(existing, "game_id")
                         /\ ~IsChanged(gs[i], Get(existing, "game_id", gs[i].game_id)) }

NoStats ==
    [new_games |-> 0, edited_games |-> 0, unchanged_games |-> 0,
     total_existing |-> 0, total_current |-> 0]

AnalyzeChangeStatistics(existing, gs) ==
    [new_games |-> Cardinality(NewGames(existing, gs)),
     edited_games |-> Cardinality(EditedGames(existing, gs)),
     unchanged_games |-> Cardinality(UnchangedGames(existing, gs)),
     total_existing |-> Len(existing),
     total_current |-> Len(gs)]

LogChangeSummary(st) ==
    (IF st.new_games > 0
     THEN << [kind |-> "GAMES_ADDED", n |-> st.new_games] >> ELSE <<>>)
    \o (IF st.edited_games > 0
        THEN << [kind |-> "GAMES_EDITED", n |-> st.edited_games] >> ELSE <<>>)
    \o << [kind |-> "FILE_UPDATED", n |-> st.new_games + st.edited_games,
           new |-> st.new_games, edited |-> st.edited_games,
           unchanged |-> st.unchanged_games] >>

\* changes.append(f"{field}: '{old_val}' -> '{new_val}'") for one game
FieldChanges(game, existing) ==
    LET changed == SelectSeq(fields_to_compare,
                             LAMBDA f : Str(existing[f]) # Str(game[f]))
    IN  [ k \in 1..Len(changed) |->
            [field |-> changed[k], old_val |-> Str(existing[changed[k]]),
             new_val |-> Str(game[changed[k]])] ]

\* the entries _compare_with_backup appends to the log
CompareWithBackup(bf, gs) ==
    LET backup_games == LoadXmlGames(bf)
        new == NewGames(backup_games, gs)
        edited == EditedGames(backup_games, gs)
        unchanged == UnchangedGames(backup_games, gs)
        removed_games == Keys(backup_games, "game_id") \ Keys(gs, "game_id")
        details == SelectSeq(
            [ i \in 1..Len(gs) |->
                IF i \in edited
                THEN [kind |-> "COMPARISON_DETAIL", id |-> gs[i].game_id,
                      changes |-> FieldChanges(gs[i],
                                     Get(backup_games, "game_id", gs[i].game_id))]
                ELSE [kind |-> "none"] ],
            LAMBDA e : e.kind # "none")
        total_changes == Cardinality(new) + Cardinality(edited)
                         + Cardinality(removed_games)
    IN  LoadXmlLog(bf) \o
        (IF backup_games = <<>>
        THEN << [kind |-> "COMPARISON_NO_BACKUP"] >>
        ELSE << [kind |-> "COMPARISON_VS_BACKUP", backup_total |-> Len(backup_games),
                 current_total |-> Len(gs)] >>
             \o (IF new # {}
                 THEN << [kind |-> "COMPARISON_NEW", n |-> Cardinality(new)] >>
                 ELSE <<>>)
             \o (IF edited # {}
                 THEN << [kind |-> "COMPARISON_EDITED", n |-> Cardinality(edited)] >>
                      \o details
                 ELSE <<>>)
             \o (IF removed_games # {}
                 THEN << [kind |-> "COMPARISON_REMOVED",
                          n |-> Cardinality(removed_games), ids |-> removed_games] >>
                 ELSE <<>>)
             \o (IF unchanged # {}
                 THEN << [kind |-> "COMPARISON_UNCHANGED", n |-> Cardinality(unchanged)] >>
                 ELSE <<>>)
             \o << [kind |-> "COMPARISON_RESULT", n |-> total_changes] >>)

-----------------------------------------------------------------------------
(* games_fetch_nfl.py: one run of NFLScheduleFetcher.run *)

Init ==
    /\ xml_file = Absent
    /\ backup_file = Absent
    /\ log_file = <<>>
    /\ games = <<>>
    /\ pc = "idle"
    /\ backup_created = FALSE
    /\ existing_games = <<>>
    /\ merged_games = <<>>
    /\ branch = "none"
    /\ stats = NoStats
    /\ scraped = <<>>
    /\ pre_xml = Absent
    /\ pre_backup = Absent
    /\ run_start = 0
    /\ backup_failed = FALSE
    /\ outcome = "none"
    /\ tree = Absent
    /\ attempt = 0
    /\ backoff = 1
    /\ last_err = NoError
    /\ slept = <<>>
    /\ nfl_teams_file = Absent
    /\ changes = 0

\* what every run resets when it starts
StartOfRun ==
    /\ pre_xml' = xml_file
    /\ pre_backup' = backup_file
    /\ run_start' = Len(log_file)
    /\ backup_failed' = FALSE
    /\ backup_created' = FALSE
    /\ existing_games' = <<>>
    /\ merged_games' = <<>>
    /\ branch' = "none"
    /\ stats' = NoStats

\* a failure logged as a success
RunFailedAsSuccess(why) == [kind |-> "RUN_SUCCESS", why |-> why]

\* _log_and_exit(f"RUN_FAILED: {why}")
RunFailed(why) == [kind |-> "RUN_FAILED", why |-> why]

\* run(): RUN_START, _fetch_schedule_page, _parse_schedule_data
Run(rows, fetched) ==
    /\ pc = "idle"
    /\ UNCHANGED retry_vars
    /\ UNCHANGED builder_vars
    /\ UNCHANGED tree
    /\ Len(log_file) < MaxLog
    /\ fetched \/ rows = <<>>
    /\ StartOfRun
    /\ UNCHANGED <<xml_file, backup_file, scraped>>
    /\ IF ~fetched
       THEN /\ games' = <<>>
            /\ log_file' = Log(log_file, << [kind |-> "RUN_START"],
                                            RunFailed("Could not fetch schedule page") >>)
            /\ pc' = "idle"
            /\ outcome' = "failed"
       ELSE /\ games' = ParseScheduleData(rows)
            /\ IF games' = <<>>
               THEN /\ log_file' = Log(log_file, << [kind |-> "RUN_START"],
                                                    RunFailed("No games found") >>)
                    /\ pc' = "idle"
                    /\ outcome' = "failed"
               ELSE /\ log_file' = Log(log_file, << [kind |-> "RUN_START"] >>)
                    /\ pc' = "backup"
                    /\ outcome' = "running"

\* _create_backup: os.remove of the old backup, then shutil.copy2; either may
\* raise, and a copy that fails part-way leaves a truncated backup
BackupOutcomes == {"copied", "remove_raised", "copy_raised", "copy_cut"}

CreateBackup(how) ==
    /\ pc = "backup"
    /\ UNCHANGED retry_vars
    /\ UNCHANGED builder_vars
    /\ UNCHANGED tree
    /\ pc' = "load"
    /\ UNCHANGED <<xml_file, games, existing_games, merged_games, branch, stats,
                   scraped, pre_xml, pre_backup, run_start, outcome>>
    /\ IF ~Exists(xml_file)
       THEN /\ how = "copied"
            /\ backup_created' = FALSE
            /\ backup_failed' = FALSE
            /\ UNCHANGED <<backup_file, log_file>>
       ELSE /\ how = "remove_raised" => Exists(backup_file)
            /\ backup_file' = CASE how = "copied" -> xml_file
                                [] how = "remove_raised" -> backup_file
                                [] how = "copy_raised" -> Absent
                                [] how = "copy_cut" -> Truncated
            /\ backup_created' = (how = "copied")
            /\ backup_failed' = (how # "copied")
            /\ log_file' = Log(log_file,
                   << [kind |-> IF how = "copied" THEN "BACKUP_CREATED"
                                                  ELSE "BACKUP_FAILED"] >>)

\* _cleanup_unnecessary_backup: os.remove, errors ignored
CleanupUnnecessaryBackup(created, bf, removed) ==
    IF created /\ Exists(bf) /\ removed THEN Absent ELSE bf

\* _save_to_xml from _load_xml_games to the choice of the arm; the arm that
\* finds no change is complete here
LoadAndDecide(removed) ==
    /\ pc = "load"
    /\ UNCHANGED retry_vars
    /\ UNCHANGED builder_vars
    /\ UNCHANGED tree
    /\ existing_games' = LoadXmlGames(xml_file)
    /\ UNCHANGED <<xml_file, games, backup_created, merged_games, scraped, pre_xml,
                   pre_backup, run_start, backup_failed, outcome>>
    /\ IF existing_games' = <<>>
       THEN /\ removed
            /\ branch' = "create"
            /\ stats' = NoStats
            /\ log_file' = Log(log_file, LoadXmlLog(xml_file))
            /\ pc' = "write_open"
            /\ UNCHANGED backup_file
       ELSE IF DetectChanges(existing_games', games)
       THEN /\ removed
            /\ branch' = "update"
            /\ stats' = AnalyzeChangeStatistics(existing_games', games)
            /\ pc' = "write_open"
            /\ UNCHANGED <<backup_file, log_file>>
       ELSE /\ branch' = "nochange"
            /\ stats' = NoStats
            /\ removed \/ backup_created
            /\ log_file' = Log(log_file,
                   << [kind |-> "NO_CHANGES", n |-> Len(games)] >>
                   \o (IF backup_created THEN CompareWithBackup(backup_file, games)
                                         ELSE <<>>))
            /\ backup_file' = CleanupUnnecessaryBackup(backup_created, backup_file, removed)
            /\ pc' = "finish"

\* an exception inside _save_to_xml that ends the run without a log entry
RaisedUnlogged ==
    /\ UNCHANGED log_file
    /\ pc' = "idle"
    /\ outcome' = "failed"

\* an exception inside _save_to_xml reaches run()'s handler
Raised ==
    /\ log_file' = Log(log_file, << RunFailed("Unexpected error") >>)
    /\ pc' = "idle"
    /\ outcome' = "failed"

\* _save_formatted_xml: open(self.xml_file, 'w') truncates the file
WriteOpen(opened) ==
    /\ pc = "write_open"
    /\ UNCHANGED retry_vars
    /\ UNCHANGED builder_vars
    /\ UNCHANGED tree
    /\ UNCHANGED <<backup_file, games, backup_created, existing_games, merged_games,
                   branch, stats, scraped, pre_xml, pre_backup, run_start, backup_failed>>
    /\ IF opened
       THEN /\ xml_file' = Truncated
            /\ pc' = "write_data"
            /\ UNCHANGED <<log_file, outcome>>
       ELSE /\ UNCHANGED xml_file
            /\ Raised

\* _save_formatted_xml: f.write and close, then what _save_to_xml and
\* _update_xml_with_changes log after the write
WriteData(written) ==
    /\ pc = "write_data"
    /\ UNCHANGED retry_vars
    /\ UNCHANGED builder_vars
    /\ UNCHANGED tree
    /\ UNCHANGED <<backup_file, games, backup_created, existing_games, merged_games,
                   branch, stats, scraped, pre_xml, pre_backup, run_start,
                   backup_failed>>
    /\ IF written
       THEN /\ xml_file' = WriteXmlFile(games)
            /\ log_file' = Log(log_file,
                   << [kind |-> "XML_WRITTEN", n |-> Len(games)] >>
                   \o (IF branch = "create"
                       THEN << [kind |-> "FILE_CREATED", n |-> Len(games)] >>
                       ELSE LogChangeSummary(stats)
                            \o (IF backup_created
                                THEN CompareWithBackup(backup_file, games)
                                ELSE <<>>)))
            /\ pc' = "finish"
            /\ UNCHANGED outcome
       ELSE /\ UNCHANGED xml_file
            /\ Raised

\* run(): RUN_SUCCESS
Finish ==
    /\ pc = "finish"
    /\ UNCHANGED retry_vars
    /\ UNCHANGED builder_vars
    /\ UNCHANGED tree
    /\ log_file' = Log(log_file, << [kind |-> "RUN_SUCCESS", n |-> Len(games)] >>)
    /\ pc' = "idle"
    /\ outcome' = "success"
    /\ UNCHANGED <<xml_file, backup_file, games, backup_created, existing_games,
                   merged_games, branch, stats, scraped, pre_xml, pre_backup,
                   run_start, backup_failed>>

NextFetch ==
    \/ \E rows \in Scrapes, fetched \in BOOLEAN : Run(rows, fetched)
    \/ \E how \in BackupOutcomes : CreateBackup(how)
    \/ \E removed \in BOOLEAN : LoadAndDecide(removed)
    \/ \E opened \in BOOLEAN : WriteOpen(opened)
    \/ \E written \in BOOLEAN : WriteData(written)
    \/ Finish

SpecFetch == Init /\ [][NextFetch]_vars

-----------------------------------------------------------------------------
(* games/_02games_nfl.py: the college football format *)

afc_teams ==
    {"Bills", "Dolphins", "Patriots", "Jets", "Ravens", "Bengals", "Browns",
     "Steelers", "Texans", "Colts", "Jaguars", "Titans", "Broncos", "Chiefs",
     "Raiders", "Chargers"}

\* afc_team.lower() in team_name.lower(): the team names of Rows are bare
\* identifiers, for which containment is membership
GetNflConference(team_name) == IF team_name \in afc_teams THEN "AFC" ELSE "NFC"

DetermineVenue(game) ==
    IF Truthy(game.location_note)
    THEN <<"NFL Stadium (", game.location_note, ")">>
    ELSE <<game.home_team, " Stadium">>

\* f"nfl_{2025}_{i+1:03d}"
NflId(i) == [prefix |-> "nfl_2025_", n |-> i]

\* str(i + 1)
SequentialId(i) == [prefix |-> "", n |-> i]

CollegeGame(id, game) ==
    [id |-> id,
     season |-> "2025",
     week |-> Or(game.week, "1"),
     seasontype |-> "regular",
     startdate |-> "2025-08-30T20:00:00.000Z",
     starttimetbd |-> "False",
     completed |-> "False",
     neutralsite |-> IF Truthy(game.location_note) THEN "True" ELSE "False",
     conferencegame |-> "False",
     venueid |-> "",
     venue |-> DetermineVenue(game),
     homeid |-> "",
     hometeam |-> game.home_team,
     homeclassification |-> "nfl",
     homeconference |-> GetNflConference(game.home_team),
     awayid |-> "",
     awayteam |-> game.away_team,
     awayclassification |-> "nfl",
     awayconference |-> GetNflConference(game.away_team),
     network |-> game.network,
     notes |-> IF Truthy(game.location_note) THEN game.location_note ELSE ""]

ConvertToCollegeFormat(gs) == [ i \in 1..Len(gs) |-> CollegeGame(NflId(i), gs[i]) ]

ParseCollegeData(rows) == ConvertToCollegeFormat(RemoveDuplicateGames(rows))

\* the team names in the order _group_games_by_team first meets them
GroupGamesByTeam(games_dict) ==
    Distinct(Flatten(
        [ i \in 1..Len(games_dict) |->
            (IF games_dict[i].hometeam # "" THEN <<games_dict[i].hometeam>> ELSE <<>>)
            \o (IF games_dict[i].awayteam # ""
                   /\ games_dict[i].awayteam # games_dict[i].hometeam
                THEN <<games_dict[i].awayteam>> ELSE <<>>) ]))

\* sorted(team_games, key=lambda g: int(g.get('week', '0')))
RECURSIVE InsertByWeek(_, _)
InsertByWeek(s, x) ==
    IF s = <<>> THEN <<x>>
    ELSE IF Int(x.week) < Int(s[Len(s)].week)
         THEN Append(InsertByWeek(SubSeq(s, 1, Len(s) - 1), x), s[Len(s)])
         ELSE Append(s, x)

RECURSIVE SortByWeek(_)
SortByWeek(s) ==
    IF s = <<>> THEN <<>>
    ELSE InsertByWeek(SortByWeek(SubSeq(s, 1, Len(s) - 1)), s[Len(s)])

\* a game element below a team element: the element's id attribute and the
\* game's other attributes
GameElement(team_name, id, game) ==
    [team |-> team_name, attrib |-> [game EXCEPT !.id = id]]

\* the document _write_college_format_xml builds
WriteCollegeFormatXml(games_dict) ==
    LET teams == GroupGamesByTeam(games_dict)
        TeamGames(t) ==
            SortByWeek(SelectSeq(games_dict,
                                 LAMBDA g : g.hometeam = t \/ g.awayteam = t))
        TeamElems(t) ==
            [ i \in 1..Len(TeamGames(t)) |->
                GameElement(t, SequentialId(i), TeamGames(t)[i]) ]
    IN  Document(Len(games_dict),
                 Flatten([ j \in 1..Len(teams) |-> TeamElems(teams[j]) ]))

RECURSIVE LoadGameElems(_, _)
LoadGameElems(elems, existing) ==
    IF elems = <<>> THEN existing
    ELSE LoadGameElems(Tail(elems), Put(existing, "id", Head(elems).attrib))

\* _load_existing_games: every game element of the document, keyed by its id
LoadExistingGames(f) == IF f.st = "doc" THEN LoadGameElems(f.elems, <<>>) ELSE <<>>

RECURSIVE MergeGames(_, _)
MergeGames(existing, gs) ==
    IF gs = <<>> THEN existing
    ELSE MergeGames(Put(existing, "id", Head(gs)), Tail(gs))

\* a variant in which the test that tells APPEND from OVERWRITE is inverted
RECURSIVE MergeLogInverted(_, _)
MergeLogInverted(merged, gs) ==
    IF gs = <<>> THEN <<>>
    ELSE << [kind |-> IF Head(gs).id \in Keys(merged, "id") THEN "APPEND"
                                                            ELSE "OVERWRITE",
             id |-> Head(gs).id, awayteam |-> Head(gs).awayteam,
             hometeam |-> Head(gs).hometeam] >>
         \o MergeLogInverted(Put(merged, "id", Head(gs)), Tail(gs))

\* the entries _merge_games appends to the log, one per scraped game
RECURSIVE MergeLog(_, _)
MergeLog(merged, gs) ==
    IF gs = <<>> THEN <<>>
    ELSE << [kind |-> IF Head(gs).id \in Keys(merged, "id") THEN "OVERWRITE"
                                                            ELSE "APPEND",
             id |-> Head(gs).id, awayteam |-> Head(gs).awayteam,
             hometeam |-> Head(gs).hometeam] >>
         \o MergeLog(Put(merged, "id", Head(gs)), Tail(gs))

-----------------------------------------------------------------------------
(* games/_02games_nfl.py: one run of NFLScheduleFetcher.run *)

\* a store left by another writer: one game element, not below a team element,
\* that carries the id this script gives its first game
FlatStore ==
    Document(1, << GameElement("", NflId(1),
                       CollegeGame(NflId(1),
                           Row("1", "Sunday, Sept. 7", "Cowboys", "Eagles", "", "NBC"))) >>)

InitMerge ==
    /\ xml_file \in {Absent, FlatStore}
    /\ backup_file = Absent
    /\ log_file = <<>>
    /\ games = <<>>
    /\ pc = "idle"
    /\ backup_created = FALSE
    /\ existing_games = <<>>
    /\ merged_games = <<>>
    /\ branch = "none"
    /\ stats = NoStats
    /\ scraped = <<>>
    /\ pre_xml = xml_file
    /\ pre_backup = Absent
    /\ run_start = 0
    /\ backup_failed = FALSE
    /\ outcome = "none"
    /\ tree = Absent
    /\ attempt = 0
    /\ backoff = 1
    /\ last_err = NoError
    /\ slept = <<>>
    /\ nfl_teams_file = Absent
    /\ changes = 0

\* run(): RUN_START, _fetch_schedule_page, _parse_schedule_data
RunMerge ==
    /\ pc = "idle"
    /\ Len(log_file) < MaxMergeLog
    /\ \E rows \in Scrapes, fetched \in BOOLEAN :
          /\ UNCHANGED retry_vars
          /\ UNCHANGED builder_vars
          /\ UNCHANGED tree
          /\ fetched \/ rows = <<>>
          /\ StartOfRun
          /\ UNCHANGED <<xml_file, backup_file, scraped>>
          /\ IF ~fetched
             THEN /\ games' = <<>>
                  /\ log_file' = Log(log_file, << [kind |-> "RUN_START"],
                                                  RunFailed("Could not fetch schedule page") >>)
                  /\ pc' = "idle"
                  /\ outcome' = "failed"
             ELSE /\ games' = ParseCollegeData(rows)
                  /\ IF games' = <<>>
                     THEN /\ log_file' = Log(log_file, << [kind |-> "RUN_START"],
                                                          RunFailed("No games found") >>)
                          /\ pc' = "idle"
                          /\ outcome' = "failed"
                     ELSE /\ log_file' = Log(log_file, << [kind |-> "RUN_START"] >>)
                          /\ pc' = "backup"
                          /\ outcome' = "running"

\* _save_to_xml: _load_existing_games and _merge_games
LoadAndMerge ==
    /\ pc = "load"
    /\ UNCHANGED retry_vars
    /\ UNCHANGED builder_vars
    /\ UNCHANGED tree
    /\ existing_games' = LoadExistingGames(xml_file)
    /\ merged_games' = MergeGames(existing_games', games)
    /\ log_file' = Log(log_file, LoadXmlLog(xml_file) \o MergeLog(existing_games', games))
    /\ branch' = "merge"
    /\ pc' = "write_open"
    /\ UNCHANGED <<xml_file, backup_file, games, backup_created, stats, scraped,
                   pre_xml, pre_backup, run_start, backup_failed,
                   outcome>>

\* _save_formatted_xml: f.write and close, then _log_merge_results
WriteCollegeData(written) ==
    /\ pc = "write_data"
    /\ UNCHANGED retry_vars
    /\ UNCHANGED builder_vars
    /\ UNCHANGED tree
    /\ UNCHANGED <<backup_file, games, backup_created, existing_games, merged_games,
                   branch, stats, scraped, pre_xml, pre_backup, run_start,
                   backup_failed>>
    /\ IF written
       THEN /\ xml_file' = WriteCollegeFormatXml(merged_games)
            /\ log_file' = Log(log_file,
                   << [kind |-> "XML_WRITTEN"],
                      [kind |-> "MERGE_STATS", original_count |-> Len(existing_games),
                       nfl_games_count |-> Len(games),
                       final_count |-> Len(merged_games)] >>)
            /\ pc' = "finish"
            /\ UNCHANGED outcome
       ELSE /\ UNCHANGED xml_file
            /\ Raised

NextMerge ==
    \/ RunMerge
    \/ \E how \in BackupOutcomes : CreateBackup(how)
    \/ LoadAndMerge
    \/ \E opened \in BOOLEAN : WriteOpen(opened)
    \/ \E written \in BOOLEAN : WriteCollegeData(written)
    \/ Finish

SpecMerge == InitMerge /\ [][NextMerge]_vars

-----------------------------------------------------------------------------
(* Parsing alone: _parse_schedule_data of either script on the rows of one  *)
(* scrape, and the document a first save writes from the result             *)

InitParse ==
    /\ scraped \in Scrapes
    /\ xml_file = Absent
    /\ backup_file = Absent
    /\ log_file = <<>>
    /\ games = <<>>
    /\ pc = "rows"
    /\ backup_created = FALSE
    /\ existing_games = <<>>
    /\ merged_games = <<>>
    /\ branch = "none"
    /\ stats = NoStats
    /\ pre_xml = Absent
    /\ pre_backup = Absent
    /\ run_start = 0
    /\ backup_failed = FALSE
    /\ outcome = "none"
    /\ tree = Absent
    /\ attempt = 0
    /\ backoff = 1
    /\ last_err = NoError
    /\ slept = <<>>
    /\ nfl_teams_file = Absent
    /\ changes = 0

\* games_fetch_nfl.py: _parse_schedule_data after the tables are read
ParseSchedule ==
    /\ pc = "rows"
    /\ UNCHANGED retry_vars
    /\ UNCHANGED builder_vars
    /\ UNCHANGED tree
    /\ games' = ParseScheduleData(scraped)
    /\ pc' = "parsed"
    /\ UNCHANGED <<xml_file, backup_file, log_file, backup_created, existing_games,
                   merged_games, branch, stats, scraped, pre_xml, pre_backup,
                   run_start, backup_failed, outcome>>

\* games/_02games_nfl.py: _parse_schedule_data after the tables are read
ParseCollege ==
    /\ pc = "rows"
    /\ UNCHANGED retry_vars
    /\ UNCHANGED builder_vars
    /\ UNCHANGED tree
    /\ games' = ParseCollegeData(scraped)
    /\ pc' = "converted"
    /\ UNCHANGED <<xml_file, backup_file, log_file, backup_created, existing_games,
                   merged_games, branch, stats, scraped, pre_xml, pre_backup,
                   run_start, backup_failed, outcome>>

\* games_fetch_nfl.py: _write_xml_file on a store that does not exist yet
SaveParsed ==
    /\ pc = "parsed"
    /\ UNCHANGED retry_vars
    /\ UNCHANGED builder_vars
    /\ UNCHANGED tree
    /\ games # <<>>
    /\ xml_file' = WriteXmlFile(games)
    /\ pc' = "saved"
    /\ UNCHANGED <<backup_file, log_file, games, backup_created, existing_games,
                   merged_games, branch, stats, scraped, pre_xml, pre_backup,
                   run_start, backup_failed, outcome>>

\* games/_02games_nfl.py: _merge_games into an empty store and
\* _write_college_format_xml
SaveConverted ==
    /\ pc = "converted"
    /\ UNCHANGED retry_vars
    /\ UNCHANGED builder_vars
    /\ UNCHANGED tree
    /\ games # <<>>
    /\ merged_games' = MergeGames(<<>>, games)
    /\ xml_file' = WriteCollegeFormatXml(merged_games')
    /\ pc' = "saved_college"
    /\ UNCHANGED <<backup_file, log_file, games, backup_created, existing_games,
                   branch, stats, scraped, pre_xml, pre_backup, run_start,
                   backup_failed, outcome>>

NextParse == ParseSchedule \/ ParseCollege \/ SaveParsed \/ SaveConverted

SpecParse == InitParse /\ [][NextParse]_vars

-----------------------------------------------------------------------------
(* teams/teams_sec.py, teams/teams_bigsky.py, teams/teams_ac.py: the data    *)

\* slugify, on the names these scripts pass to it
Slugify(name) ==
    CASE name = "Army" -> "army"
      [] name = "Charlotte" -> "charlotte"
      [] name = "East Carolina" -> "east-carolina"
      [] name = "Florida Atlantic" -> "florida-atlantic"
      [] name = "Memphis" -> "memphis"
      [] name = "Navy" -> "navy"
      [] name = "North Texas" -> "north-texas"
      [] name = "Rice" -> "rice"
      [] name = "South Florida" -> "south-florida"
      [] name = "Temple" -> "temple"
      [] name = "Tulane" -> "tulane"
      [] name = "Tulsa" -> "tulsa"
      [] name = "UAB" -> "uab"
      [] name = "UTSA" -> "utsa"
      [] name = "Alabama" -> "alabama"
      [] name = "Arkansas" -> "arkansas"
      [] name = "Auburn" -> "auburn"
      [] name = "Florida" -> "florida"
      [] name = "Georgia" -> "georgia"
      [] name = "Kentucky" -> "kentucky"
      [] name = "LSU" -> "lsu"
      [] name = "Mississippi State" -> "mississippi-state"
      [] name = "Missouri" -> "missouri"
      [] name = "Oklahoma" -> "oklahoma"
      [] name = "Ole Miss" -> "ole-miss"
      [] name = "South Carolina" -> "south-carolina"
      [] name = "Tennessee" -> "tennessee"
      [] name = "Texas" -> "texas"
      [] name = "Texas A&M" -> "texas-a-m"
      [] name = "Vanderbilt" -> "vanderbilt"
      [] name = "Sewanee: The University of the South"
             -> "sewanee-the-university-of-the-south"

\* teams_bigsky.py; the display names of AAC_TEAMS in teams_ac.py are the same
AAC_FOOTBALL_TEAMS_2025 ==
    <<"Army", "Charlotte", "East Carolina", "Florida Atlantic", "Memphis", "Navy",
      "North Texas", "Rice", "South Florida", "Temple", "Tulane", "Tulsa", "UAB",
      "UTSA">>

must_have ==
    {"Alabama", "Arkansas", "Auburn", "Florida", "Georgia", "Kentucky", "LSU",
     "Ole Miss", "Mississippi State", "Missouri", "South Carolina", "Tennessee",
     "Texas A&M", "Vanderbilt", "Oklahoma", "Texas"}

\* the first cells the member table of the page can hold
RawNames ==
    {"University of Alabama", "Sewanee: The University of the South", "Birmingham"}

\* brand_map.get(n2, n2)
BrandMap(n) == IF n = "University of Alabama" THEN "Alabama" ELSE n

\* looks_like_institution: a token such as "university" occurs in the name
LooksLikeInstitution(n) ==
    n \in {"University of Alabama", "Sewanee: The University of the South"}

\* sorted(cleaned, key=lambda x: x.lower()): the brands in that order
BrandsInOrder ==
    <<"Alabama", "Arkansas", "Auburn", "Florida", "Georgia", "Kentucky", "LSU",
      "Mississippi State", "Missouri", "Oklahoma", "Ole Miss",
      "Sewanee: The University of the South", "South Carolina", "Tennessee",
      "Texas", "Texas A&M", "Vanderbilt">>

ATHLETICS_URL(b) ==
    CASE b = "Alabama" -> "https://rolltide.com"
      [] b = "Arkansas" -> "https://arkansasrazorbacks.com"
      [] b = "Auburn" -> "https://auburntigers.com"
      [] b = "Florida" -> "https://floridagators.com"
      [] b = "Georgia" -> "https://georgiadogs.com"
      [] b = "Kentucky" -> "https://ukathletics.com"
      [] b = "LSU" -> "https://lsusports.net"
      [] b = "Ole Miss" -> "https://olemisssports.com"
      [] b = "Mississippi State" -> "https://hailstate.com"
      [] b = "Missouri" -> "https://mutigers.com"
      [] b = "South Carolina" -> "https://gamecocksonline.com"
      [] b = "Tennessee" -> "https://utsports.com"
      [] b = "Texas A&M" -> "https://12thman.com"
      [] b = "Vanderbilt" -> "https://vucommodores.com"
      [] b = "Oklahoma" -> "https://soonersports.com"
      [] b = "Texas" -> "https://texassports.com"
      [] OTHER -> ""

\* scrape_sec_members once the page is read: the member dicts, where logo is
\* what fetch_program_logo_from_wiki returned for the programs it knows
ScrapeSecMembers(raw, logo) ==
    LET cleaned == { BrandMap(n) : n \in { r \in raw : LooksLikeInstitution(r) } }
                   \cup must_have
        brands == SelectSeq(BrandsInOrder, LAMBDA b : b \in cleaned)
    IN  [ i \in 1..Len(brands) |->
            [name |-> brands[i], official_url |-> ATHLETICS_URL(brands[i]),
             logo_url |-> IF brands[i] \in must_have THEN logo ELSE ""] ]

\* a team element: its id attribute and the text of its children
TeamElement(prefix, name) ==
    [id |-> <<prefix, Slugify(name)>>, name |-> name, slug |-> Slugify(name),
     established |-> "", league |-> "NCAA Division I FBS", league_abbr |-> "FBS",
     hometown |-> "", population |-> "", primary_color |-> "",
     secondary_color |-> "", logo_url |-> "", header_background_url |-> "",
     head_coach |-> "", owners |-> "", stadium |-> "", official_url |-> "",
     operations_url |-> ""]

\* teams_sec.build_team_element
BuildSecTeam(m) ==
    [TeamElement("sec_", m.name) EXCEPT !.official_url = m.official_url,
                                        !.logo_url = m.logo_url]

\* teams_bigsky.build_team_element
BuildBigskyTeam(name) == TeamElement("aac_", name)

\* teams_ac.build_team_element, where branding tells whether CFBD returned a
\* record, venues and a coach for the school
BuildAcTeam(display_name, branding) ==
    IF branding
    THEN [TeamElement("aac_", display_name) EXCEPT
             !.hometown = "City, ST", !.primary_color = "#000000",
             !.secondary_color = "#ffffff", !.logo_url = "http://a.espncdn.com/logo.png",
             !.head_coach = "First Last", !.stadium = "Stadium"]
    ELSE TeamElement("aac_", display_name)

-----------------------------------------------------------------------------
(* teams/teams_sec.py, teams/teams_bigsky.py, teams/teams_ac.py: teams.xml   *)

\* teams.xml: the root's count attributes and, below the one NCAA league, the
\* conferences elements; a conferences element is its conference children, a
\* conference has its divisions elements, a divisions element is its division
\* children, a division has its team children
TeamsDocument(n_teams, n_leagues, cs) ==
    [st |-> "doc", total_teams |-> n_teams, total_leagues |-> n_leagues,
     conferences |-> cs]

\* the document ensure_tree writes when there is none
NewTeamsDocument == TeamsDocument(0, 0, <<>>)

DivisionsTeams(dc) == Flatten([ d \in 1..Len(dc) |-> dc[d].teams ])

ConferenceTeams(c) ==
    Flatten([ j \in 1..Len(c.divisions) |-> DivisionsTeams(c.divisions[j]) ])

ConferencesTeams(cc) == Flatten([ k \in 1..Len(cc) |-> ConferenceTeams(cc[k]) ])

\* root.findall(".//team")
AllTeams(root) ==
    IF root.st = "doc"
    THEN Flatten([ i \in 1..Len(root.conferences) |->
                     ConferencesTeams(root.conferences[i]) ])
    ELSE <<>>

\* team_exists finding no team
TeamExistsNever(root, team_id) == FALSE

\* root.find(f".//team[@id='{team_id}']") is not None
TeamExists(root, team_id) == \E t \in Range(AllTeams(root)) : t.id = team_id

\* find_or_create: the first child whose attributes match, 0 when none does;
\* matches tells of each child whether it does
FirstMatch(matches) ==
    IF \E i \in 1..Len(matches) : matches[i]
    THEN CHOOSE i \in 1..Len(matches) :
             /\ matches[i]
             /\ \A j \in 1..(i - 1) : ~matches[j]
    ELSE 0

\* DIV_NAME, the single bucket division: an em dash in the scripts
DIV_NAME == "-"

\* parent.find(tag) or ET.SubElement(parent, tag): the first child is used
\* when it has children of its own, a new last child otherwise
FindOrNew(containers) ==
    IF containers # <<>> /\ containers[1] # <<>> THEN 1 ELSE Len(containers) + 1

\* ensure_league_conference_division: the tree with the elements it created,
\* and the place of the division node in it
EnsureLeagueConferenceDivision(root, conf_name, conf_abbr) ==
    LET ci == FindOrNew(root.conferences)
        r1 == IF ci > Len(root.conferences)
              THEN [root EXCEPT !.conferences = Append(@, <<>>)] ELSE root
        cc == r1.conferences[ci]
        k0 == FirstMatch([ i \in 1..Len(cc) |->
                               cc[i].name = conf_name /\ cc[i].abbreviation = conf_abbr ])
        k  == IF k0 = 0 THEN Len(cc) + 1 ELSE k0
        r2 == IF k0 = 0
              THEN [r1 EXCEPT !.conferences[ci] =
                       Append(@, [name |-> conf_name, abbreviation |-> conf_abbr,
                                  divisions |-> <<>>])]
              ELSE r1
        ds == r2.conferences[ci][k].divisions
        di == FindOrNew(ds)
        r3 == IF di > Len(ds)
              THEN [r2 EXCEPT !.conferences[ci][k].divisions = Append(@, <<>>)] ELSE r2
        dc == r3.conferences[ci][k].divisions[di]
        d0 == FirstMatch([ i \in 1..Len(dc) |-> dc[i].name = DIV_NAME ])
        d  == IF d0 = 0 THEN Len(dc) + 1 ELSE d0
        r4 == IF d0 = 0
              THEN [r3 EXCEPT !.conferences[ci][k].divisions[di] =
                       Append(@, [name |-> DIV_NAME, teams |-> <<>>])]
              ELSE r3
    IN  [root |-> r4, ci |-> ci, k |-> k, di |-> di, d |-> d]

\* the loop of main: each team element is appended to the division node
\* unless team_exists finds its id in the tree
RECURSIVE AppendTeams(_, _, _)
AppendTeams(root, at, elements) ==
    IF elements = <<>> THEN root
    ELSE IF TeamExists(root, Head(elements).id)
         THEN AppendTeams(root, at, Tail(elements))
         ELSE AppendTeams(
                  [root EXCEPT
                      !.conferences[at.ci][at.k].divisions[at.di][at.d].teams =
                          Append(@, Head(elements))],
                  at, Tail(elements))

\* update_counts: every script matches the same LEAGUE_ATTR, so the tree has
\* one league element
UpdateCounts(root) ==
    [root EXCEPT !.total_leagues = 1, !.total_teams = Len(AllTeams(root))]

Scripts == {"teams_sec", "teams_bigsky", "teams_ac"}

CONF_NAME(script) ==
    IF script = "teams_sec" THEN "Southeastern Conference"
                            ELSE "American Athletic Conference"

CONF_ABBR(script) == IF script = "teams_sec" THEN "SEC" ELSE "AC"

\* the variables the teams scripts have no counterpart for
NotOfTeams == <<log_file, games, existing_games, merged_games, stats, run_start>>

\* the scripts start from the same files as the fetchers: none yet
InitTeams == Init

\* __main__: an exception from main is printed and the script exits with 1
TeamsRunFailed ==
    /\ pc' = "idle"
    /\ outcome' = "failed"

\* ensure_tree writing a new document whether or not one exists
EnsureTreeCreatesAlways(f) == TRUE

\* ensure_tree: os.path.exists(path) decides whether a new document is written
EnsureTreeCreates(f) == ~Exists(f)

\* main: tree = ensure_tree(xml_path). A missing teams.xml is written with an
\* empty league and parsed back; ET.parse raises on a file that is not
\* well-formed
EnsureTree(script, created) ==
    /\ pc = "idle"
    /\ xml_file.st = "doc" => Len(xml_file.conferences) < MaxContainers
    /\ UNCHANGED retry_vars
    /\ UNCHANGED builder_vars
    /\ branch' = script
    /\ pre_xml' = xml_file
    /\ pre_backup' = backup_file
    /\ backup_created' = FALSE
    /\ backup_failed' = FALSE
    /\ scraped' = <<>>
    /\ UNCHANGED <<backup_file, NotOfTeams>>
    /\ IF EnsureTreeCreates(xml_file)
       THEN IF created
            THEN /\ xml_file' = NewTeamsDocument
                 /\ tree' = NewTeamsDocument
                 /\ pc' = "teams_backup"
                 /\ outcome' = "running"
            ELSE /\ UNCHANGED xml_file
                 /\ tree' = Absent
                 /\ TeamsRunFailed
       ELSE /\ created
            /\ UNCHANGED xml_file
            /\ IF xml_file.st = "doc"
               THEN /\ tree' = xml_file
                    /\ pc' = "teams_backup"
                    /\ outcome' = "running"
               ELSE /\ tree' = Absent
                    /\ TeamsRunFailed

\* backup_file: shutil.copy2 over teams.xml.bak; an exception is not caught
\* here and ends the run, a copy that fails part-way leaves a truncated backup
TeamsBackupOutcomes == {"copied", "copy_raised", "copy_cut"}

BackupFile(how) ==
    /\ pc = "teams_backup"
    /\ UNCHANGED retry_vars
    /\ UNCHANGED builder_vars
    /\ UNCHANGED <<xml_file, tree, branch, scraped, pre_xml, pre_backup, NotOfTeams>>
    /\ IF ~Exists(xml_file)
       THEN /\ how = "copied"
            /\ pc' = "members"
            /\ UNCHANGED <<backup_file, backup_created, backup_failed, outcome>>
       ELSE /\ backup_file' = CASE how = "copied" -> xml_file
                                [] how = "copy_raised" -> backup_file
                                [] how = "copy_cut" -> Truncated
            /\ backup_created' = (how = "copied")
            /\ backup_failed' = (how # "copied")
            /\ IF how = "copied"
               THEN /\ pc' = "members"
                    /\ UNCHANGED outcome
               ELSE TeamsRunFailed

\* main from ensure_league_conference_division to update_counts, on the tree
\* in memory
AppendMembers(root, script, elements) ==
    LET at == EnsureLeagueConferenceDivision(root, CONF_NAME(script), CONF_ABBR(script))
    IN  UpdateCounts(AppendTeams(at.root, at, elements))

Logos == {"", "//upload.wikimedia.org/logo.png"}

\* teams_sec.main: scrape_sec_members raises when the page cannot be fetched
\* or its member table is not found
MembersSec(raw, logo, scraped_ok) ==
    /\ pc = "members"
    /\ UNCHANGED retry_vars
    /\ UNCHANGED builder_vars
    /\ branch = "teams_sec"
    /\ UNCHANGED <<xml_file, backup_file, branch, backup_created, backup_failed,
                   pre_xml, pre_backup, NotOfTeams>>
    /\ IF scraped_ok
       THEN /\ scraped' = [ i \in 1..Len(ScrapeSecMembers(raw, logo)) |->
                              BuildSecTeam(ScrapeSecMembers(raw, logo)[i]) ]
            /\ tree' = AppendMembers(tree, branch, scraped')
            /\ pc' = "teams_write"
            /\ UNCHANGED outcome
       ELSE /\ raw = {}
            /\ logo = ""
            /\ UNCHANGED <<scraped, tree>>
            /\ TeamsRunFailed

\* teams_bigsky.main: the hardcoded member list
MembersBigsky ==
    /\ pc = "members"
    /\ UNCHANGED retry_vars
    /\ UNCHANGED builder_vars
    /\ branch = "teams_bigsky"
    /\ UNCHANGED <<xml_file, backup_file, branch, backup_created, backup_failed,
                   pre_xml, pre_backup, outcome, NotOfTeams>>
    /\ scraped' = [ i \in 1..Len(AAC_FOOTBALL_TEAMS_2025) |->
                      BuildBigskyTeam(AAC_FOOTBALL_TEAMS_2025[i]) ]
    /\ tree' = AppendMembers(tree, branch, scraped')
    /\ pc' = "teams_write"

\* teams_ac.main: branding_index returns {} when CFBD gives no payload, the
\* venue and coach lookups log their errors
MembersAc(branding) ==
    /\ pc = "members"
    /\ UNCHANGED retry_vars
    /\ UNCHANGED builder_vars
    /\ branch = "teams_ac"
    /\ UNCHANGED <<xml_file, backup_file, branch, backup_created, backup_failed,
                   pre_xml, pre_backup, outcome, NotOfTeams>>
    /\ scraped' = [ i \in 1..Len(AAC_FOOTBALL_TEAMS_2025) |->
                      BuildAcTeam(AAC_FOOTBALL_TEAMS_2025[i], branding) ]
    /\ tree' = AppendMembers(tree, branch, scraped')
    /\ pc' = "teams_write"

\* teams_sec.main, teams_bigsky.main: tree.write(xml_path) opens teams.xml for
\* writing, which truncates it
TreeWriteOpen(opened) ==
    /\ pc = "teams_write"
    /\ UNCHANGED retry_vars
    /\ UNCHANGED builder_vars
    /\ branch \in {"teams_sec", "teams_bigsky"}
    /\ UNCHANGED <<backup_file, tree, branch, scraped, backup_created, backup_failed,
                   pre_xml, pre_backup, NotOfTeams>>
    /\ IF opened
       THEN /\ xml_file' = Truncated
            /\ pc' = "teams_write_data"
            /\ UNCHANGED outcome
       ELSE /\ UNCHANGED xml_file
            /\ TeamsRunFailed

\* tree.write: the serialized tree is written and the file closed
TreeWriteData(written) ==
    /\ pc = "teams_write_data"
    /\ UNCHANGED retry_vars
    /\ UNCHANGED builder_vars
    /\ UNCHANGED <<backup_file, tree, branch, scraped, backup_created, backup_failed,
                   pre_xml, pre_backup, NotOfTeams>>
    /\ IF written
       THEN /\ xml_file' = tree
            /\ pc' = "idle"
            /\ outcome' = "success"
       ELSE /\ UNCHANGED xml_file
            /\ TeamsRunFailed

\* teams_ac.atomic_write: tree.write to teams.xml.tmp, then os.replace
AtomicWriteOutcomes == {"replaced", "tmp_raised", "replace_raised"}

AtomicWrite(how) ==
    /\ pc = "teams_write"
    /\ UNCHANGED retry_vars
    /\ UNCHANGED builder_vars
    /\ branch = "teams_ac"
    /\ UNCHANGED <<backup_file, tree, branch, scraped, backup_created, backup_failed,
                   pre_xml, pre_backup, NotOfTeams>>
    /\ IF how = "replaced"
       THEN /\ xml_file' = tree
            /\ pc' = "idle"
            /\ outcome' = "success"
       ELSE /\ UNCHANGED xml_file
            /\ TeamsRunFailed

NextTeams ==
    \/ \E script \in Scripts, created \in BOOLEAN : EnsureTree(script, created)
    \/ \E how \in TeamsBackupOutcomes : BackupFile(how)
    \/ \E raw \in SUBSET RawNames, logo \in Logos, scraped_ok \in BOOLEAN :
           MembersSec(raw, logo, scraped_ok)
    \/ MembersBigsky
    \/ \E branding \in BOOLEAN : MembersAc(branding)
    \/ \E opened \in BOOLEAN : TreeWriteOpen(opened)
    \/ \E written \in BOOLEAN : TreeWriteData(written)
    \/ \E how \in AtomicWriteOutcomes : AtomicWrite(how)

SpecTeams == InitTeams /\ [][NextTeams]_vars

\* a well-formed teams.xml whose league has an empty <conferences> element
EmptyConferencesDocument == TeamsDocument(0, 1, << <<>> >>)

\* the team-append scripts started on an absent teams.xml or on one that
\* was written by hand
InitTeamsAny ==
    /\ xml_file \in {Absent, EmptyConferencesDocument}
    /\ backup_file = Absent
    /\ log_file = <<>>
    /\ games = <<>>
    /\ pc = "idle"
    /\ backup_created = FALSE
    /\ existing_games = <<>>
    /\ merged_games = <<>>
    /\ branch = "none"
    /\ stats = NoStats
    /\ scraped = <<>>
    /\ pre_xml = xml_file
    /\ pre_backup = Absent
    /\ run_start = 0
    /\ backup_failed = FALSE
    /\ outcome = "none"
    /\ tree = Absent
    /\ attempt = 0
    /\ backoff = 1
    /\ last_err = NoError
    /\ slept = <<>>
    /\ nfl_teams_file = Absent
    /\ changes = 0

SpecTeamsAny == InitTeamsAny /\ [][NextTeams]_vars

-----------------------------------------------------------------------------
(* teams/teams_nfl.py *)

\* team dicts as enhance_teams_with_operations_data returns them, with the
\* fields of ensure_complete_team_data that vary here
Bills ==
    [name |-> "Buffalo Bills", slug |-> "buffalo-bills",
     head_coach |-> "Sean McDermott", conference |-> "AFC",
     division_name |-> "AFC East", url |-> "https://www.nfl.com/teams/buffalo-bills/"]

\* the profile page gave no head coach: ensure_complete_team_data fills ERROR
BillsNoCoach == [Bills EXCEPT !.head_coach = "ERROR"]

Cowboys ==
    [name |-> "Dallas Cowboys", slug |-> "dallas-cowboys",
     head_coach |-> "Brian Schottenheimer", conference |-> "NFC",
     division_name |-> "NFC East", url |-> "https://www.nfl.com/teams/dallas-cowboys/"]

\* what the teams page can yield
NflScrapes ==
    { <<>>, <<Bills>>, <<BillsNoCoach>>, <<Bills, Cowboys>>, <<Cowboys, Bills>> }

\* save_to_xml_multi_league: a team element, its id and the text of its children
NflTeamElement(team) ==
    [id |-> <<"nfl_", team.slug>>, name |-> team.name, slug |-> team.slug,
     head_coach |-> team.head_coach, official_url |-> team.url]

\* save_to_xml_multi_league: the teams in the order of the document, by
\* conference and division in order of first occurrence
NflDocumentOrder(teams) ==
    LET confs == Distinct([ i \in 1..Len(teams) |-> teams[i].conference ])
        OfConf(c) == SelectSeq(teams, LAMBDA t : t.conference = c)
        Divs(c) == Distinct([ i \in 1..Len(OfConf(c)) |-> OfConf(c)[i].division_name ])
        OfDiv(c, d) == SelectSeq(OfConf(c), LAMBDA t : t.division_name = d)
    IN  Flatten([ i \in 1..Len(confs) |->
            Flatten([ j \in 1..Len(Divs(confs[i])) |->
                OfDiv(confs[i], Divs(confs[i])[j]) ]) ])

\* save_to_xml_multi_league: the document tree.write leaves
SaveToXmlMultiLeague(teams) ==
    Document(Len(teams),
             [ i \in 1..Len(teams) |-> NflTeamElement(NflDocumentOrder(teams)[i]) ])

\* load_xml_teams: the tags with text of each team that has a name; a file
\* that cannot be parsed gives {} and an XML_READ_ERROR entry
LoadXmlTeams(f) ==
    IF f.st = "doc"
    THEN [ i \in 1..Len(f.elems) |->
             [name |-> f.elems[i].name, slug |-> f.elems[i].slug,
              head_coach |-> f.elems[i].head_coach,
              official_url |-> f.elems[i].official_url] ]
    ELSE <<>>

LoadXmlTeamsLog(f) ==
    IF f.st = "truncated" THEN << [kind |-> "XML_READ_ERROR"] >> ELSE <<>>

\* detect_actual_changes: fields_to_compare, of the fields the team dicts
\* carry here
nfl_fields_to_compare == <<"slug", "conference", "head_coach", "division_name", "url">>

\* str(backup_team.get(field, ''))
BackupVal(backup_team, field) ==
    IF field \in DOMAIN backup_team THEN backup_team[field] ELSE ""

\* detect_actual_changes reporting no change whatever the teams are
DetectActualChangesNever(current_teams, backup_teams) ==
    [changed |-> FALSE, log |-> << [kind |-> "NO_CHANGES"] >>]

\* detect_actual_changes: whether a change is reported, and what is logged
DetectActualChanges(current_teams, backup_teams) ==
    LET names == { current_teams[i].name : i \in 1..Len(current_teams) }
        backup_names == { backup_teams[i].name : i \in 1..Len(backup_teams) }
        InBackup(n) == CHOOSE b \in Range(backup_teams) : b.name = n
        Differs(t) ==
            \/ t.name \notin backup_names
            \/ \E k \in 1..Len(nfl_fields_to_compare) :
                  t[nfl_fields_to_compare[k]]
                     # BackupVal(InBackup(t.name), nfl_fields_to_compare[k])
    IN  IF backup_teams = <<>>
        THEN [changed |-> TRUE, log |-> <<>>]
        ELSE IF \/ Cardinality(names) # Cardinality(backup_names)
                \/ \E i \in 1..Len(current_teams) : Differs(current_teams[i])
                \/ \E n \in backup_names : n \notin names
        THEN [changed |-> TRUE, log |-> << [kind |-> "CHANGE_DETECTED"] >>]
        ELSE [changed |-> FALSE, log |-> << [kind |-> "NO_CHANGES"] >>]

InitTeamsNfl == Init

\* main: open(LOG_FILE, "w") and the two header lines
LogHeader == << [kind |-> "HEADER"], [kind |-> "RULE"] >>

\* the variables teams_nfl.py has no counterpart for
NotOfTeamsNfl == <<merged_games, stats, scraped, tree>>

\* main: the exception handler logs RUN_FAILED and raises again
NflRunFailed ==
    /\ log_file' = Log(log_file, << RunFailed("Unexpected error") >>)
    /\ pc' = "idle"
    /\ outcome' = "failed"

\* main: the log file is opened with "w" and the header written, then
\* RUN_START is logged
TeamsNflMain ==
    /\ pc = "idle"
    /\ UNCHANGED retry_vars
    /\ UNCHANGED builder_vars
    /\ log_file' = Log(LogHeader, << [kind |-> "RUN_START"] >>)
    /\ pre_xml' = xml_file
    /\ pre_backup' = backup_file
    /\ run_start' = Len(LogHeader)
    /\ backup_created' = FALSE
    /\ backup_failed' = FALSE
    /\ branch' = "teams_nfl"
    /\ games' = <<>>
    /\ existing_games' = <<>>
    /\ pc' = "nfl_backup"
    /\ outcome' = "running"
    /\ UNCHANGED <<xml_file, backup_file, NotOfTeamsNfl>>

\* create_backup: os.remove of the old backup, then shutil.copy2; an exception
\* is logged and False returned
TeamsNflCreateBackup(how) ==
    /\ pc = "nfl_backup"
    /\ UNCHANGED retry_vars
    /\ UNCHANGED builder_vars
    /\ pc' = "nfl_fetch"
    /\ UNCHANGED <<xml_file, games, existing_games, branch, pre_xml, pre_backup,
                   run_start, outcome, NotOfTeamsNfl>>
    /\ IF ~Exists(xml_file)
       THEN /\ how = "copied"
            /\ backup_created' = FALSE
            /\ backup_failed' = FALSE
            /\ log_file' = Log(log_file, << [kind |-> "BACKUP_SKIP"] >>)
            /\ UNCHANGED backup_file
       ELSE /\ how = "remove_raised" => Exists(backup_file)
            /\ backup_file' = CASE how = "copied" -> xml_file
                                [] how = "remove_raised" -> backup_file
                                [] how = "copy_raised" -> Absent
                                [] how = "copy_cut" -> Truncated
            /\ backup_created' = (how = "copied")
            /\ backup_failed' = (how # "copied")
            /\ log_file' = Log(log_file,
                   << [kind |-> IF how = "copied" THEN "BACKUP_CREATED"
                                                  ELSE "BACKUP_FAILED"] >>)

\* main: load_xml_teams(OUTPUT_FILE), fetch_teams_from_nfl, whose request may
\* raise, fetch_conference_division, enhance_teams_with_operations_data
TeamsNflFetch(teams, fetched) ==
    /\ pc = "nfl_fetch"
    /\ UNCHANGED retry_vars
    /\ UNCHANGED builder_vars
    /\ existing_games' = LoadXmlTeams(xml_file)
    /\ UNCHANGED <<xml_file, backup_file, backup_created, backup_failed, branch,
                   pre_xml, pre_backup, run_start, NotOfTeamsNfl>>
    /\ IF fetched
       THEN /\ games' = teams
            /\ log_file' = Log(log_file,
                   LoadXmlTeamsLog(xml_file)
                   \o << [kind |-> "FETCH_BASIC_START"],
                         [kind |-> "ENHANCE_COMPLETE", n |-> Len(teams)] >>)
            /\ pc' = "nfl_write_open"
            /\ UNCHANGED outcome
       ELSE /\ teams = <<>>
            /\ UNCHANGED games
            /\ log_file' = Log(log_file,
                   LoadXmlTeamsLog(xml_file)
                   \o << [kind |-> "FETCH_BASIC_START"],
                         RunFailed("Unexpected error") >>)
            /\ pc' = "idle"
            /\ outcome' = "failed"

\* save_to_xml_multi_league: tree.write(OUTPUT_FILE) opens the file for
\* writing, which truncates it
TeamsNflWriteOpen(opened) ==
    /\ pc = "nfl_write_open"
    /\ UNCHANGED retry_vars
    /\ UNCHANGED builder_vars
    /\ UNCHANGED <<backup_file, games, existing_games, backup_created, backup_failed,
                   branch, pre_xml, pre_backup, run_start, NotOfTeamsNfl>>
    /\ IF opened
       THEN /\ xml_file' = Truncated
            /\ pc' = "nfl_write_data"
            /\ UNCHANGED <<log_file, outcome>>
       ELSE /\ UNCHANGED xml_file
            /\ NflRunFailed

\* save_to_xml_multi_league: the document is written and the three summary
\* lines logged
TeamsNflWriteData(written) ==
    /\ pc = "nfl_write_data"
    /\ UNCHANGED retry_vars
    /\ UNCHANGED builder_vars
    /\ UNCHANGED <<backup_file, games, existing_games, backup_created, backup_failed,
                   branch, pre_xml, pre_backup, run_start, NotOfTeamsNfl>>
    /\ IF written
       THEN /\ xml_file' = SaveToXmlMultiLeague(games)
            /\ log_file' = Log(log_file,
                   << [kind |-> "XML_WRITTEN", n |-> Len(games)],
                      [kind |-> "ERROR_SUMMARY"],
                      [kind |-> "NFL_LOGO_INCLUDED"] >>)
            /\ pc' = "nfl_compare"
            /\ UNCHANGED outcome
       ELSE /\ UNCHANGED xml_file
            /\ NflRunFailed

\* main: detect_actual_changes against the backup when one was created,
\* cleanup_unnecessary_backup, RUN_SUCCESS
TeamsNflCompare(removed) ==
    LET detected == IF backup_created
                    THEN DetectActualChanges(games, LoadXmlTeams(backup_file))
                    ELSE [changed |-> TRUE,
                          log |-> << [kind |-> "COMPARISON_SKIP"] >>]
        cleanup == backup_created /\ ~detected.changed /\ Exists(backup_file)
    IN  /\ pc = "nfl_compare"
        /\ UNCHANGED retry_vars
        /\ UNCHANGED builder_vars
        /\ removed \/ cleanup
        /\ backup_file' = IF cleanup /\ removed THEN Absent ELSE backup_file
        /\ log_file' = Log(log_file,
               (IF backup_created THEN LoadXmlTeamsLog(backup_file) ELSE <<>>)
               \o detected.log
               \o (IF cleanup
                   THEN << [kind |-> IF removed THEN "BACKUP_CLEANUP"
                                                ELSE "BACKUP_CLEANUP_FAILED"] >>
                   ELSE <<>>)
               \o << [kind |-> "RUN_SUCCESS", n |-> Len(games)] >>)
        /\ pc' = "idle"
        /\ outcome' = "success"
        /\ UNCHANGED <<xml_file, games, existing_games, backup_created, backup_failed,
                       branch, pre_xml, pre_backup, run_start, NotOfTeamsNfl>>

NextTeamsNfl ==
    \/ TeamsNflMain
    \/ \E how \in BackupOutcomes : TeamsNflCreateBackup(how)
    \/ \E teams \in NflScrapes, fetched \in BOOLEAN : TeamsNflFetch(teams, fetched)
    \/ \E opened \in BOOLEAN : TeamsNflWriteOpen(opened)
    \/ \E written \in BOOLEAN : TeamsNflWriteData(written)
    \/ \E removed \in BOOLEAN : TeamsNflCompare(removed)

SpecTeamsNfl == InitTeamsNfl /\ [][NextTeamsNfl]_vars

-----------------------------------------------------------------------------
(* teams/teams_ac.py: CFBDApi._get, teams/teams_sec.py: get *)

\* CFBDApi._get: max_attempts=4
max_attempts == 4

\* CFBDApi._get: backoff = min(backoff * 2, 8)
BackoffCap == 8

\* teams_sec.py: RETRIES, SLEEP_BETWEEN
RETRIES == 3

SLEEP_BETWEEN == 1

\* what a request can meet: a good response, HTTP 429, or a
\* requests.RequestException (no connection, timeout, raise_for_status)
Responses == {"ok", "429", "error"}

\* the Retry-After header of a 429 response: absent, a date, or seconds
RetryAfterHeaders == {"", "Wed, 21 Oct 2026 07:28:00 GMT", "30"}

\* ra and ra.isdigit()
HeaderIsDigit(ra) == ra = "30"

\* float(ra)
Float(ra) == IF ra = "30" THEN 30 ELSE 0

Min(a, b) == IF a < b THEN a ELSE b

\* the variables a fetch call has no part in
NotOfFetch ==
    <<xml_file, backup_file, log_file, games, backup_created, existing_games,
      merged_games, stats, scraped, pre_xml, pre_backup, run_start,
      backup_failed, tree, nfl_teams_file, changes>>

InitRetry == Init

\* CFBDApi._get is called: backoff = 1.0, last_err = None
CfbdGet ==
    /\ pc = "idle"
    /\ branch' = "_get"
    /\ attempt' = 0
    /\ backoff' = 1
    /\ last_err' = NoError
    /\ slept' = <<>>
    /\ pc' = "cfbd_request"
    /\ outcome' = "running"
    /\ UNCHANGED NotOfFetch

\* one pass of the loop of CFBDApi._get: a 429 sleeps for Retry-After or for
\* backoff and continues, a RequestException is kept in last_err and sleeps
\* for backoff, anything else returns r.json()
CfbdRequest(response, ra) ==
    /\ pc = "cfbd_request"
    /\ attempt < max_attempts
    /\ attempt' = attempt + 1
    /\ UNCHANGED <<branch, NotOfFetch>>
    /\ CASE response = "ok" ->
              /\ ra = ""
              /\ pc' = "idle"
              /\ outcome' = "returned"
              /\ UNCHANGED <<backoff, last_err, slept>>
         [] response = "429" ->
              /\ slept' = Append(slept, IF HeaderIsDigit(ra) THEN Float(ra) ELSE backoff)
              /\ backoff' = Min(backoff * 2, BackoffCap)
              /\ UNCHANGED <<last_err, outcome>>
              /\ pc' = IF attempt' = max_attempts THEN "cfbd_raise" ELSE "cfbd_request"
         [] response = "error" ->
              /\ ra = ""
              /\ last_err' = RequestError(attempt')
              /\ slept' = Append(slept, backoff)
              /\ backoff' = Min(backoff * 2, BackoffCap)
              /\ UNCHANGED outcome
              /\ pc' = IF attempt' = max_attempts THEN "cfbd_raise" ELSE "cfbd_request"

\* raise last_err, raise last: raising None is a TypeError
RaiseLast ==
    /\ pc' = "idle"
    /\ outcome' = IF last_err = NoError THEN "TypeError" ELSE "RequestException"
    /\ UNCHANGED <<branch, attempt, backoff, last_err, slept, NotOfFetch>>

\* CFBDApi._get: the loop is over
CfbdRaise ==
    /\ pc = "cfbd_raise"
    /\ RaiseLast

\* teams_sec.get is called
SecGet ==
    /\ pc = "idle"
    /\ branch' = "get"
    /\ attempt' = 0
    /\ last_err' = NoError
    /\ slept' = <<>>
    /\ pc' = "sec_request"
    /\ outcome' = "running"
    /\ UNCHANGED <<backoff, NotOfFetch>>

\* one pass of the loop of teams_sec.get: any exception is kept in last and
\* the loop sleeps SLEEP_BETWEEN
SecRequest(response) ==
    /\ pc = "sec_request"
    /\ attempt < RETRIES
    /\ attempt' = attempt + 1
    /\ UNCHANGED <<branch, backoff, NotOfFetch>>
    /\ IF response = "ok"
       THEN /\ pc' = "idle"
            /\ outcome' = "returned"
            /\ UNCHANGED <<last_err, slept>>
       ELSE /\ last_err' = RequestError(attempt')
            /\ slept' = Append(slept, SLEEP_BETWEEN)
            /\ UNCHANGED outcome
            /\ pc' = IF attempt' = RETRIES THEN "sec_raise" ELSE "sec_request"

\* teams_sec.get: the loop is over
SecRaise ==
    /\ pc = "sec_raise"
    /\ RaiseLast

NextRetry ==
    \/ CfbdGet
    \/ \E response \in Responses, ra \in RetryAfterHeaders : CfbdRequest(response, ra)
    \/ CfbdRaise
    \/ SecGet
    \/ \E response \in {"ok", "error"} : SecRequest(response)
    \/ SecRaise

SpecRetry == InitRetry /\ [][NextRetry]_vars

-----------------------------------------------------------------------------
(* tools/teams_builder.py *)

\* a child element of a team: its tag and its text
Child(tag, text) == [tag |-> tag, text |-> text]

\* team elements of data/nfl_teams.xml: a team is its children in order
BillsBuffalo == << Child("name", "Bills"), Child("city", "Buffalo") >>

BillsOrchardPark == << Child("name", "Bills"), Child("city", "Orchard Park ") >>

BillsOnly == << Child("name", "Bills") >>

Unnamed == << Child("city", "Buffalo") >>

\* the teams the source file can hold
SourceTeams == {BillsBuffalo, BillsOrchardPark, BillsOnly, Unnamed}

\* the lists of teams the source file can hold
Sources ==
    { <<>> } \cup { <<t>> : t \in SourceTeams }
             \cup { <<t, u>> : t \in SourceTeams, u \in SourceTeams }

\* (text or "").strip()
Strip(text) ==
    CASE text = None -> ""
      [] text = "Orchard Park " -> "Orchard Park"
      [] OTHER -> text

\* element.find(tag): the place of the first child with the tag, 0 for None
Find(element, tag) ==
    IF \E i \in 1..Len(element) : element[i].tag = tag
    THEN CHOOSE i \in 1..Len(element) :
             /\ element[i].tag = tag
             /\ \A j \in 1..(i - 1) : element[j].tag # tag
    ELSE 0

\* element.findtext(tag)
FindText(element, tag) ==
    IF Find(element, tag) = 0 THEN None ELSE element[Find(element, tag)].text

\* elements_equal
ElementsEqual(a, b) == a.tag = b.tag /\ Strip(a.text) = Strip(b.text)

\* a document with the teams root: the Football sport nodes it holds, each
\* the list of its teams
BuilderDocument(sports) == [st |-> "doc", sports |-> sports]

\* load_tree_and_root: the document written when the path does not exist
EmptyTeamsRoot == BuilderDocument(<<>>)

\* find_or_create_football_sport: the teams of the first Football node
FootballTeams(root) == IF root.sports = <<>> THEN <<>> ELSE root.sports[1]

\* build_team_map: the place of the team each name is mapped to, the last
\* team with that name; 0 when the map lacks the name
TeamMap(teams, name) ==
    IF \E i \in 1..Len(teams) : FindText(teams[i], "name") = name
    THEN CHOOSE i \in 1..Len(teams) :
             /\ FindText(teams[i], "name") = name
             /\ \A j \in (i + 1)..Len(teams) : FindText(teams[j], "name") # name
    ELSE 0

\* sync_team_fields: the existing team after the loop, and modified
RECURSIVE SyncTeamFields(_, _)
SyncTeamFields(existing, source) ==
    IF source = <<>> THEN [team |-> existing, modified |-> FALSE]
    ELSE LET child == Head(source)
             k == Find(existing, child.tag)
             synced == IF k = 0 THEN Append(existing, child)
                       ELSE IF ~ElementsEqual(existing[k], child)
                       THEN [existing EXCEPT ![k].text = child.text]
                       ELSE existing
             rest == SyncTeamFields(synced, Tail(source))
         IN  [team |-> rest.team,
              modified |-> (synced # existing) \/ rest.modified]

\* the loop of main over the teams of the source: existing_team_map is the
\* map built before the loop, teams the Football node's teams so far
RECURSIVE SyncTeams(_, _, _, _)
SyncTeams(existing_teams, teams, n, source) ==
    IF source = <<>> THEN [teams |-> teams, changes |-> n]
    ELSE LET nfl_team == Head(source)
             name == FindText(nfl_team, "name")
             k == TeamMap(existing_teams, name)
         IN  IF name = None \/ name = ""
             THEN SyncTeams(existing_teams, teams, n, Tail(source))
             ELSE IF k # 0
             THEN LET synced == SyncTeamFields(teams[k], nfl_team)
                  IN  SyncTeams(existing_teams, [teams EXCEPT ![k] = synced.team],
                                IF synced.modified THEN n + 1 ELSE n, Tail(source))
             ELSE SyncTeams(existing_teams, Append(teams, nfl_team), n + 1,
                            Tail(source))

\* main up to the test of changes: the tree and the count
BuilderSync(root, source) ==
    LET r == SyncTeams(FootballTeams(root), FootballTeams(root), 0, source)
    IN  [tree |-> BuilderDocument(<< r.teams >>), changes |-> r.changes]

\* the variables tools/teams_builder.py has no counterpart for
NotOfBuilder ==
    <<backup_file, log_file, games, backup_created, existing_games, merged_games,
      stats, scraped, pre_backup, run_start, backup_failed, retry_vars>>

InitBuilder == Init

\* main: both files are loaded, a missing one is created with an empty root;
\* ET.parse raises on a file that is not well-formed and nothing catches it;
\* without changes main ends here
TeamsBuilderMain(source) ==
    /\ pc = "idle"
    /\ branch' = "teams_builder"
    /\ pre_xml' = xml_file
    /\ nfl_teams_file' = BuilderDocument(<< source >>)
    /\ UNCHANGED NotOfBuilder
    /\ IF xml_file.st = "truncated"
       THEN /\ tree' = Absent
            /\ changes' = 0
            /\ pc' = "idle"
            /\ outcome' = "failed"
            /\ UNCHANGED xml_file
       ELSE LET root == IF Exists(xml_file) THEN xml_file ELSE EmptyTeamsRoot
                synced == BuilderSync(root, source)
            IN  /\ xml_file' = root
                /\ changes' = synced.changes
                /\ IF synced.changes > 0
                   THEN /\ tree' = synced.tree
                        /\ pc' = "builder_write_open"
                        /\ outcome' = "running"
                   ELSE /\ tree' = root
                        /\ pc' = "idle"
                        /\ outcome' = "success"

\* teams_tree.write(TEAMS_PATH) opens the file for writing, which truncates it
TeamsBuilderWriteOpen(opened) ==
    /\ pc = "builder_write_open"
    /\ UNCHANGED <<tree, branch, pre_xml, builder_vars, NotOfBuilder>>
    /\ IF opened
       THEN /\ xml_file' = Truncated
            /\ pc' = "builder_write_data"
            /\ UNCHANGED outcome
       ELSE /\ UNCHANGED xml_file
            /\ pc' = "idle"
            /\ outcome' = "failed"

\* teams_tree.write: the serialized tree is written and the file closed
TeamsBuilderWriteData(written) ==
    /\ pc = "builder_write_data"
    /\ UNCHANGED <<tree, branch, pre_xml, builder_vars, NotOfBuilder>>
    /\ pc' = "idle"
    /\ IF written
       THEN /\ xml_file' = tree
            /\ outcome' = "success"
       ELSE /\ UNCHANGED xml_file
            /\ outcome' = "failed"

NextBuilder ==
    \/ \E source \in Sources : TeamsBuilderMain(source)
    \/ \E opened \in BOOLEAN : TeamsBuilderWriteOpen(opened)
    \/ \E written \in BOOLEAN : TeamsBuilderWriteData(written)

SpecBuilder == InitBuilder /\ [][NextBuilder]_vars

-----------------------------------------------------------------------------
(* Properties *)

\* the entries the current run has appended to the log
RunLog == SubSeq(log_file, run_start + 1, Len(log_file))

\* how many entries of a log satisfy a test
Count(lg, Test(_)) == Cardinality({ i \in 1..Len(lg) : Test(lg[i]) })

\* C1: in every store document, no two game elements carry the same id
C1_KeyUniqueness ==
    xml_file.st = "doc" =>
        \A i, j \in 1..Len(xml_file.elems) :
            i # j => xml_file.elems[i].attrib.id # xml_file.elems[j].attrib.id

\* C2: a run whose games are exactly those the store already holds, the store
\* being the document a save of these games writes, detects no change and
\* leaves the store as it is
C2_Idempotent ==
    (branch # "none" /\ games # <<>> /\ pre_xml = WriteXmlFile(games)) =>
        (branch = "nochange" /\ xml_file = pre_xml)

\* C3: a run whose backup step raised leaves the store as it was when the run
\* started and does not end in success
C3_BackupOrAbort ==
    backup_failed => (xml_file = pre_xml /\ outcome # "success")

\* C4: at every moment of a run the store is either the document the run
\* started with or the complete document of the run's games
C4_AtomicSave ==
    pc # "idle" => xml_file \in {pre_xml, WriteXmlFile(games)}

\* C5: a run that ended in failure left the store exactly as it was when the
\* run started
C5_FailedRunKeepsStore ==
    (pc = "idle" /\ outcome = "failed") => xml_file = pre_xml

\* the game ids of a games_fetch_nfl.py store document
StoreIds(f) == { f.elems[i].id : i \in 1..Len(f.elems) }

\* C6: after a successful run, every key the store held when the run started
\* and the run's games lack is still in the store, and the run's log carries
\* one Removed entry that names it
C6_RemovedRetained ==
    (pc = "idle" /\ outcome = "success") =>
        \A k \in StoreIds(pre_xml) \ Keys(games, "game_id") :
            /\ k \in StoreIds(xml_file)
            /\ Count(RunLog, LAMBDA e : e.kind = "COMPARISON_REMOVED" /\ k \in e.ids) = 1

StoredRecord(e) ==
    [game_id |-> e.id, week_game_id |-> e.week_game_id, game_code |-> e.game_code,
     nfl_game_key |-> e.nfl_game_key, week |-> e.number, date |-> e.value,
     away_team |-> e.away_team, home_team |-> e.home_team,
     location_note |-> IF e.location_note = NoElement THEN "" ELSE e.location_note,
     time_et |-> e.local_kickoff, time_local |-> e.et_kickoff, network |-> e.network]

\* str() of every field of a game of the run
NewRecord(g) ==
    [game_id |-> g.game_id, week_game_id |-> g.week_game_id, game_code |-> g.game_code,
     nfl_game_key |-> g.nfl_game_key, week |-> Str(g.week), date |-> Str(g.date),
     away_team |-> Str(g.away_team), home_team |-> Str(g.home_team),
     location_note |-> Str(g.location_note), time_et |-> Str(g.time_et),
     time_local |-> Str(g.time_local), network |-> Str(g.network)]

\* the element of the store the run started with that carries this id
StoredBefore(id) == CHOOSE e \in Range(pre_xml.elems) : e.id = id

\* C8: in a run that updates the store, the games counted as edited are those
\* whose id the store held and of which some field, none excluded, differs
\* from the stored string, and the games counted as unchanged are those whose
\* id the store held and of which no field differs
C8_UpdatedIffFieldDiffers ==
    branch = "update" =>
        LET held == { i \in 1..Len(games) : games[i].game_id \in StoreIds(pre_xml) }
            differ == { i \in held :
                          StoredRecord(StoredBefore(games[i].game_id)) # NewRecord(games[i]) }
        IN  /\ stats.edited_games = Cardinality(differ)
            /\ stats.unchanged_games = Cardinality(held \ differ)

\* C9: after an update that was compared with the backup taken in the same
\* run, the field changes reported for a game the store held are exactly one
\* (field, stored string, new string) for each compared field whose stored and
\* new strings differ
C9_FieldDiffs ==
    (pc = "finish" /\ branch = "update" /\ backup_created) =>
        \A i \in 1..Len(games) :
            games[i].game_id \in StoreIds(pre_xml) =>
                LET stored == StoredRecord(StoredBefore(games[i].game_id))
                    new == NewRecord(games[i])
                    entries == SelectSeq(RunLog,
                                   LAMBDA e : /\ e.kind = "COMPARISON_DETAIL"
                                              /\ e.id = games[i].game_id)
                    reported == IF entries = <<>> THEN <<>> ELSE entries[1].changes
                IN  /\ Len(entries) <= 1
                    /\ \A f \in Range(fields_to_compare) :
                          Count(reported, LAMBDA c : c.field = f)
                              = IF stored[f] # new[f] THEN 1 ELSE 0
                    /\ \A k \in 1..Len(reported) :
                          /\ reported[k].old_val = stored[reported[k].field]
                          /\ reported[k].new_val = new[reported[k].field]

\* the scraped rows that are the first, and the last, of their key
FirstOfKey == { i \in 1..Len(scraped) :
                  \A j \in 1..(i - 1) : GameKey(scraped[j]) # GameKey(scraped[i]) }

LastOfKey == { i \in 1..Len(scraped) :
                 \A j \in (i + 1)..Len(scraped) : GameKey(scraped[j]) # GameKey(scraped[i]) }

\* the scraped fields of a game of games_fetch_nfl.py
RowOf(g) == Row(g.week, g.date, g.away_team, g.home_team, g.location_note, g.network)

\* a game of games_fetch_nfl.py, and its element in the store, carry the
\* fields of this row
ParsedFrom(rows) ==
    /\ Len(games) = Cardinality(rows)
    /\ \A i \in rows : \E k \in 1..Len(games) : RowOf(games[k]) = scraped[i]
    /\ pc = "saved" =>
          \A i \in rows : \E e \in Range(xml_file.elems) :
              /\ e.away_team = scraped[i].away_team
              /\ e.home_team = scraped[i].home_team
              /\ e.number = WeekNum(scraped[i])
              /\ e.value = DateOf(scraped[i])
              /\ e.network = scraped[i].network

\* a game of games/_02games_nfl.py, and its elements in the store, carry the
\* fields of this row
ConvertedFrom(rows) ==
    /\ Len(games) = Cardinality(rows)
    /\ \A i \in rows : \E k \in 1..Len(games) :
          games[k] = CollegeGame(games[k].id, scraped[i])
    /\ pc = "saved_college" =>
          \A i \in rows : \E e \in Range(xml_file.elems) :
              /\ e.team = scraped[i].home_team
              /\ e.attrib = CollegeGame(e.attrib.id, scraped[i])

InvalidKey(row) ==
    \/ ~Truthy(row.week)
    \/ ~Truthy(row.date)
    \/ row.away_team = ""
    \/ row.home_team = ""

\* C11: no record of the merged snapshot saved by games/_02games_nfl.py comes
\* from a scraped row whose week, date, away team or home team is empty or
\* missing
C11_InvalidKeySkipped ==
    pc = "saved_college" =>
        \A i \in 1..Len(scraped) :
            InvalidKey(scraped[i]) =>
                \A k \in 1..Len(merged_games) :
                    merged_games[k] # CollegeGame(merged_games[k].id, scraped[i])

\* C14: after a successful run that rewrote a store that existed when the run
\* started, the backup file is the document the store held when the run
\* started
C14_BackupIsCopy ==
    (pc = "idle" /\ outcome = "success" /\ pre_xml.st # "absent"
     /\ branch \in {"create", "update"}) =>
        backup_file = pre_xml

\* C15: the log of a run of games/_02games_nfl.py that ended in failure holds
\* no APPEND or OVERWRITE line of that run
C15_LogAfterSave ==
    (pc = "idle" /\ outcome = "failed") =>
        Count(RunLog, LAMBDA e : e.kind \in {"APPEND", "OVERWRITE"}) = 0

\* C17: a game of the run that has the week, away team, home team and date of
\* a game the store held when the run started has that game's id
C17_KeyStable ==
    \A i \in 1..Len(games) : \A e \in Range(pre_xml.elems) :
        (/\ e.number = WeekNum(games[i])
         /\ e.value = DateOf(games[i])
         /\ e.away_team = games[i].away_team
         /\ e.home_team = games[i].home_team) =>
            e.id = games[i].game_id

\* C18: a run of games/_02games_nfl.py on the store a first run with the same
\* games saved logs no APPEND line, and its merged snapshot holds as many
\* games as it loaded
C18_RerunOverwrites ==
    (branch = "merge" /\ pre_xml = WriteCollegeFormatXml(MergeGames(<<>>, games))) =>
        /\ Count(RunLog, LAMBDA e : e.kind = "APPEND") = 0
        /\ Len(merged_games) = Len(existing_games)

\* C19: the total_games attribute of every store document of
\* games/_02games_nfl.py is its number of game elements
C19_TotalCount ==
    xml_file.st = "doc" => xml_file.total = Len(xml_file.elems)

\* C12: a run that finds a store document it cannot parse goes on with an
\* empty snapshot instead of failing (here for teams.xml: the run holds a tree)
C12_CorruptStoreTolerated ==
    (branch \in Scripts /\ pre_xml.st = "truncated") => tree.st = "doc"

\* C13: in a run that found a store document, no write to the store path
\* happens before the backup step of that run
C13_BackupBeforeWrite ==
    [][ (xml_file' # xml_file /\ Exists(pre_xml'))
           => (pc # "idle" /\ (backup_created \/ backup_failed)) ]_vars

\* a run has rewritten a store it found, after copying it to the backup
C13_Witness ==
    /\ pc = "idle"
    /\ outcome = "success"
    /\ branch \in Scripts
    /\ pre_xml.st = "doc"
    /\ xml_file # pre_xml
    /\ backup_created
    /\ backup_file = pre_xml

TeamIds(root) == [ i \in 1..Len(AllTeams(root)) |-> AllTeams(root)[i].id ]

\* C20: every team id occurs once in teams.xml, and a successful run keeps the
\* team elements it found, skips the members whose id is present and adds one
\* element for each other member, none when all are present
C20_AppendIdempotent ==
    /\ Distinct(TeamIds(xml_file)) = TeamIds(xml_file)
    /\ (pc = "idle" /\ outcome = "success" /\ branch \in Scripts) =>
          /\ Range(AllTeams(pre_xml)) \subseteq Range(AllTeams(xml_file))
          /\ \A i \in 1..Len(scraped) : TeamExists(xml_file, scraped[i].id)
          /\ Len(AllTeams(xml_file)) =
                Len(AllTeams(pre_xml))
                + Cardinality({ i \in 1..Len(scraped) :
                                   ~TeamExists(pre_xml, scraped[i].id) })
          /\ (\A i \in 1..Len(scraped) : TeamExists(pre_xml, scraped[i].id))
                => AllTeams(xml_file) = AllTeams(pre_xml)

\* a successful run skipped a member whose id was present: the element it
\* built for that member is not in the store
C20_Witness ==
    /\ pc = "idle"
    /\ outcome = "success"
    /\ branch \in Scripts
    /\ \E i \in 1..Len(scraped) :
          /\ TeamExists(pre_xml, scraped[i].id)
          /\ scraped[i] \notin Range(AllTeams(xml_file))

\* C16: the audit log is append-only: every step leaves the lines written
\* before it in place, unmodified and in their order
C16_LogAppendOnly ==
    [][ /\ Len(log_file') >= Len(log_file)
        /\ \A i \in 1..Len(log_file) : log_file'[i] = log_file[i] ]_vars

\* C21: a run that found no store document creates no backup file
C21_NoBackupOnFirstRun ==
    ~Exists(pre_xml) => backup_file = pre_backup

\* C22: a run whose fetch failed or whose parse found no game leaves the
\* store file and the backup file as they were, and its log lines are
\* RUN_START and RUN_FAILED
C22_NoRecordsNoWrite ==
    (pc = "idle" /\ outcome = "failed" /\ games = <<>>) =>
        /\ xml_file = pre_xml
        /\ backup_file = pre_backup
        /\ Len(RunLog) = 2
        /\ RunLog[1].kind = "RUN_START"
        /\ RunLog[2].kind = "RUN_FAILED"

\* a run found no game while a store document exists
C22_Witness ==
    /\ pc = "idle"
    /\ outcome = "failed"
    /\ games = <<>>
    /\ Exists(pre_xml)
    /\ RunLog[2] = RunFailed("No games found")

\* C23: when the store's content differs from what the run found, the backup
\* the run took at its start still exists and holds the previous content
C23_BackupKeptWhenChanged ==
    (backup_created /\ xml_file # pre_xml) => backup_file = pre_xml

\* a run of teams_nfl.py has replaced the teams of the store it found and
\* ended with its backup in place
C23_Witness ==
    /\ pc = "idle"
    /\ outcome = "success"
    /\ branch = "teams_nfl"
    /\ backup_created
    /\ pre_xml.st = "doc"
    /\ xml_file.st = "doc"
    /\ xml_file # pre_xml
    /\ Exists(backup_file)

\* C24: after a successful merge, every game element of the store the run
\* found whose id is not the id of a game of the run is in the store with the
\* id and the attributes it had
C24_UnrelatedUntouched ==
    (pc = "idle" /\ outcome = "success" /\ branch = "merge" /\ pre_xml.st = "doc") =>
        \A e \in Range(pre_xml.elems) :
            e.attrib.id \notin Keys(games, "id")
                => \E f \in Range(xml_file.elems) : f.attrib = e.attrib

\* C25: a fetch call that used up its attempts without a good response ends
\* by raising the last request error, also when every attempt met HTTP 429
C25_RaisesRequestError ==
    (branch \in {"_get", "get"} /\ pc = "idle" /\ outcome # "returned") =>
        outcome = "RequestException"

\* C26: after a successful run of tools/teams_builder.py, every named team of
\* the source has a team of its name in the Football node whose children
\* agree with the source's, and a second run with the same source counts no
\* change
C26_FixedPoint ==
    (branch = "teams_builder" /\ pc = "idle" /\ outcome = "success") =>
        LET source == nfl_teams_file.sports[1]
            teams == FootballTeams(xml_file)
        IN  /\ \A i \in 1..Len(source) :
                  Truthy(FindText(source[i], "name")) =>
                      \E j \in 1..Len(teams) :
                          /\ FindText(teams[j], "name") = FindText(source[i], "name")
                          /\ \A c \in 1..Len(source[i]) :
                                \E d \in 1..Len(teams[j]) :
                                    ElementsEqual(teams[j][d], source[i][c])
            /\ BuilderSync(xml_file, source).changes = 0

\* C27: a run whose backup step failed leaves the backup file it found in
\* place with its content
C27_FailedBackupKeepsOld ==
    (backup_failed /\ Exists(pre_backup)) => backup_file = pre_backup

\* the run has a game id the loaded store lacks
HasNewId(existing, gs) ==
    \E i \in 1..Len(gs) : gs[i].game_id \notin Keys(existing, "game_id")

\* the loaded store has a game id the run lacks
HasMissingId(existing, gs) ==
    \E id \in Keys(existing, "game_id") : id \notin Keys(gs, "game_id")

\* a game of the run differs from the loaded game of its id in a compared field
HasChangedField(existing, gs) ==
    \E i \in 1..Len(gs) :
        /\ gs[i].game_id \in Keys(existing, "game_id")
        /\ \E f \in Range(fields_to_compare) :
              Str(gs[i][f]) # Str(Get(existing, "game_id", gs[i].game_id)[f])

\* C28: against a store that holds games, the run takes the updating arm
\* exactly when it has a new id, lacks a stored id or has a game with a
\* differing compared field; a run on the other arm leaves the store file as
\* it is, and a successful run on the updating arm has written its games
C28_DetectIffDifferent ==
    branch \in {"update", "nochange"} =>
        /\ branch = "update" <=>
              \/ HasNewId(existing_games, games)
              \/ HasMissingId(existing_games, games)
              \/ HasChangedField(existing_games, games)
        /\ branch = "nochange" => xml_file = pre_xml
        /\ (branch = "update" /\ pc = "idle" /\ outcome = "success")
              => xml_file = WriteXmlFile(games)

\* a run was told apart from the store only by a stored game it lacks, and
\* has rewritten the store
C28_Witness ==
    /\ branch = "update"
    /\ pc = "idle"
    /\ outcome = "success"
    /\ HasMissingId(existing_games, games)
    /\ ~HasNewId(existing_games, games)
    /\ ~HasChangedField(existing_games, games)

Terminal(e) == e.kind \in {"RUN_SUCCESS", "RUN_FAILED"}

\* C29: the log lines of a run start with its one RUN_START; while the run
\* is under way they hold no terminal entry, and once it is over they end
\* with the only one: RUN_SUCCESS only if the save step went through (the
\* store written and XML_WRITTEN logged, or no change found), RUN_FAILED
\* only if the run had no games or the save step did not write
C29_OneTerminalEntry ==
    LET written == Count(RunLog, LAMBDA e : e.kind = "XML_WRITTEN")
        last == RunLog[Len(RunLog)]
    IN  /\ RunLog # <<>> =>
              /\ RunLog[1].kind = "RUN_START"
              /\ Count(RunLog, LAMBDA e : e.kind = "RUN_START") = 1
        /\ pc # "idle" => Count(RunLog, Terminal) = 0
        /\ (pc = "idle" /\ RunLog # <<>>) =>
              /\ Count(RunLog, Terminal) = 1
              /\ Terminal(last)
              /\ last.kind = "RUN_SUCCESS" =>
                    /\ games # <<>>
                    /\ \/ branch = "nochange" /\ xml_file = pre_xml
                       \/ /\ branch \in {"create", "update"}
                          /\ written = 1
                          /\ xml_file = WriteXmlFile(games)
                       \/ /\ branch = "merge"
                          /\ written = 1
                          /\ xml_file = WriteCollegeFormatXml(merged_games)
              /\ last.kind = "RUN_FAILED" =>
                    \/ games = <<>>
                    \/ branch \in {"create", "update", "merge"} /\ written = 0

\* a run whose save step raised has ended with RUN_FAILED as its only
\* terminal entry
C29_Witness ==
    /\ pc = "idle"
    /\ games # <<>>
    /\ branch = "update"
    /\ RunLog[Len(RunLog)].kind = "RUN_FAILED"
    /\ xml_file = Truncated

\* the conferences of a container that carry the script's name and
\* abbreviation
MatchingConferences(cc, script) ==
    { k \in 1..Len(cc) : /\ cc[k].name = CONF_NAME(script)
                         /\ cc[k].abbreviation = CONF_ABBR(script) }

DashDivisions(dc) == { d \in 1..Len(dc) : dc[d].name = DIV_NAME }

\* C30: teams.xml, whenever it is a document, has at most one <conferences>
\* element in its league, in it at most one conference of each script, in
\* each conference at most one <divisions> element, and in it at most one
\* single bucket division
C30_SingleContainers ==
    xml_file.st = "doc" =>
        /\ Len(xml_file.conferences) <= 1
        /\ \A i \in 1..Len(xml_file.conferences) :
              LET cc == xml_file.conferences[i]
              IN  /\ \A script \in Scripts :
                         Cardinality(MatchingConferences(cc, script)) <= 1
                  /\ \A k \in 1..Len(cc) :
                         /\ Len(cc[k].divisions) <= 1
                         /\ \A j \in 1..Len(cc[k].divisions) :
                                Cardinality(DashDivisions(cc[k].divisions[j])) <= 1

====
